---- MODULE Spec2Model ----
(***************************************************************************)
(* Model of the OpenInsider scraper (src/openinsiderData/                  *)
(* openinsider_scraper.py): the concurrent fetch-cache-filter-aggregate    *)
(* pipeline of OpenInsiderScraper.scrape and _get_data_for_month.          *)
(*                                                                         *)
(* Texts (table cells, record fields, configured tickers) are sequences    *)
(* of one-character strings, so that strip() and _clean_numeric are        *)
(* computed character by character.  Floats are counted in hundredths.     *)
(***************************************************************************)
EXTENDS Integers, Sequences, FiniteSets, TLC

(* ------------------------------------------------------------------ *)
(* Bounds of the model                                                 *)
(* ------------------------------------------------------------------ *)
\* longest table (number of <tr> rows) a response may hold
MaxRows == 2
\* the clock is found advanced at most this many times
MaxTicks == 3
\* years of history before the year of Today a configuration may ask for
MaxYears == 2
\* POST /api/run requests the web API receives
MaxPosts == 2

(* ------------------------------------------------------------------ *)
(* Program constants                                                   *)
(* ------------------------------------------------------------------ *)
\* @retry(tries=3, ...)
Tries == 3
\* age < cache_max_age * 3600
SecondsPerHour == 3600

(* ------------------------------------------------------------------ *)
(* Generic helpers                                                     *)
(* ------------------------------------------------------------------ *)
Range(s) == {s[i] : i \in DOMAIN s}

\* all sequences over S of length at most n
SeqsUpTo(S, n) == UNION {[1..k -> S] : k \in 0..n}

\* the orders in which a Python set can be iterated: every sequence that
\* lists each element of S exactly once
Orderings(S) == {s \in [1..Cardinality(S) -> S] : Range(s) = S}

RECURSIVE SumLen(_, _)
SumLen(f, S) ==
    IF S = {} THEN 0
    ELSE LET x == CHOOSE y \in S : TRUE IN Len(f[x]) + SumLen(f, S \ {x})

(* ------------------------------------------------------------------ *)
(* Python string operations                                            *)
(* ------------------------------------------------------------------ *)
Whitespace == {" "}
Digits == {"0", "1", "2", "3", "4", "5", "6", "7", "8", "9"}

\* str(n) of a natural number
RECURSIVE IntText(_)
IntText(n) ==
    LET d == <<"0", "1", "2", "3", "4", "5", "6", "7", "8", "9">>[(n % 10) + 1] IN
    IF n < 10 THEN <<d>> ELSE Append(IntText(n \div 10), d)

DigitVal(c) ==
    CASE c = "0" -> 0 [] c = "1" -> 1 [] c = "2" -> 2 [] c = "3" -> 3
      [] c = "4" -> 4 [] c = "5" -> 5 [] c = "6" -> 6 [] c = "7" -> 7
      [] c = "8" -> 8 [] c = "9" -> 9

RECURSIVE LStrip(_)
LStrip(s) == IF s # <<>> /\ Head(s) \in Whitespace THEN LStrip(Tail(s)) ELSE s

RECURSIVE RStrip(_)
RStrip(s) ==
    IF s # <<>> /\ s[Len(s)] \in Whitespace
    THEN RStrip(SubSeq(s, 1, Len(s) - 1)) ELSE s

\* str.strip()
Strip(s) == RStrip(LStrip(s))

\* str.replace(c, '') for a one-character c
Remove(s, c) == SelectSeq(s, LAMBDA x : x # c)

LowerChar(c) ==
    CASE c = "A" -> "a" [] c = "B" -> "b" [] c = "C" -> "c" [] c = "D" -> "d"
      [] c = "E" -> "e" [] c = "F" -> "f" [] c = "G" -> "g" [] c = "H" -> "h"
      [] c = "I" -> "i" [] c = "J" -> "j" [] c = "K" -> "k" [] c = "L" -> "l"
      [] c = "M" -> "m" [] c = "N" -> "n" [] c = "O" -> "o" [] c = "P" -> "p"
      [] c = "Q" -> "q" [] c = "R" -> "r" [] c = "S" -> "s" [] c = "T" -> "t"
      [] c = "U" -> "u" [] c = "V" -> "v" [] c = "W" -> "w" [] c = "X" -> "x"
      [] c = "Y" -> "y" [] c = "Z" -> "z"
      [] OTHER -> c

\* str.lower()
Lower(s) == [i \in DOMAIN s |-> LowerChar(s[i])]

RECURSIVE DigitsVal(_)
\* the number written by a sequence of digits
DigitsVal(s) ==
    IF s = <<>> THEN 0
    ELSE 10 * DigitsVal(SubSeq(s, 1, Len(s) - 1)) + DigitVal(s[Len(s)])

\* the fraction digits d1 d2 ... as hundredths (digits beyond the second
\* are below the scale and are dropped)
FracVal(s) ==
    (IF Len(s) >= 1 THEN 10 * DigitVal(s[1]) ELSE 0)
    + (IF Len(s) >= 2 THEN DigitVal(s[2]) ELSE 0)

\* the unsigned decimal literals float() accepts: digits, digits '.',
\* '.' digits, digits '.' digits
IsUnsignedFloat(s) ==
    LET dots == {i \in DOMAIN s : s[i] = "."} IN
    /\ s # <<>>
    /\ Cardinality(dots) <= 1
    /\ \A i \in DOMAIN s : s[i] \in Digits \cup {"."}
    /\ \E i \in DOMAIN s : s[i] \in Digits

UnsignedFloatVal(s) ==
    LET dots == {i \in DOMAIN s : s[i] = "."} IN
    IF dots = {} THEN 100 * DigitsVal(s)
    ELSE LET d == CHOOSE i \in dots : TRUE IN
         100 * DigitsVal(SubSeq(s, 1, d - 1)) + FracVal(SubSeq(s, d + 1, Len(s)))

\* float(s): surrounding whitespace and one leading sign are accepted
FloatBody(s) ==
    LET t == Strip(s) IN
    IF t # <<>> /\ Head(t) \in {"-", "+"} THEN Tail(t) ELSE t

\* a Python float: a number (here in hundredths), nan, or an infinity
\* with its sign
Num(n) == [kind |-> "num", v |-> n]
NaN == [kind |-> "nan", v |-> 0]
Inf(sign) == [kind |-> "inf", v |-> sign]

\* a < b on floats: every comparison with nan is false
FloatLt(a, b) ==
    IF a.kind = "nan" \/ b.kind = "nan" THEN FALSE
    ELSE IF a.kind = "inf" THEN a.v < 0 /\ ~(b.kind = "inf" /\ b.v < 0)
    ELSE IF b.kind = "inf" THEN b.v > 0
    ELSE a.v < b.v

Abs(x) == IF x < 0 THEN 0 - x ELSE x

\* abs(a) on floats
FloatAbs(a) ==
    CASE a.kind = "num" -> Num(Abs(a.v))
      [] a.kind = "inf" -> Inf(1)
      [] OTHER -> a

\* the words float() accepts besides decimal literals, in any letter case
InfWords == {<<"i", "n", "f">>, <<"i", "n", "f", "i", "n", "i", "t", "y">>}
NanWords == {<<"n", "a", "n">>}

\* float(s) does not raise ValueError (decimal literals and the words
\* above; the exponent and digit-group forms are outside the texts of
\* the model)
FloatParses(s) ==
    \/ IsUnsignedFloat(FloatBody(s))
    \/ Lower(FloatBody(s)) \in InfWords \cup NanWords

\* float(s) for a text float() accepts
FloatVal(s) ==
    LET t == Strip(s)
        negative == t # <<>> /\ Head(t) = "-"
        body == FloatBody(s) IN
    IF Lower(body) \in NanWords THEN NaN
    ELSE IF Lower(body) \in InfWords THEN Inf(IF negative THEN 0 - 1 ELSE 1)
    ELSE Num(IF negative THEN 0 - UnsignedFloatVal(body) ELSE UnsignedFloatVal(body))

\* OpenInsiderScraper._clean_numeric
clean_numeric(value) ==
    IF value = <<>> \/ Lower(value) \in {<<"n", "/", "a">>, <<"n", "e", "w">>}
    THEN Num(0)
    ELSE LET v == Remove(Remove(Remove(Remove(value, "$"), ","), "+"), "%") IN
         IF FloatParses(v) THEN FloatVal(v) ELSE Num(0)

(* ------------------------------------------------------------------ *)
(* Table rows and Records                                              *)
(* ------------------------------------------------------------------ *)
\* column_keys: 'x', 'filing_date', 'trade_date', 'ticker', 'company_name',
\* 'owner_name', 'title', 'trade_type', 'price', 'qty', 'owned',
\* 'change_pct', 'value', '1d', '1w', '1m', '6m'
column_keys == <<"x", "filing_date", "trade_date", "ticker", "company_name",
                 "owner_name", "title", "trade_type", "price", "qty",
                 "owned", "change_pct", "value", "1d", "1w", "1m", "6m">>

\* the keys of insider_data, in insertion order (the field order of a Record)
field_names == <<"filing_date", "trade_date", "ticker", "company_name",
                 "owner_name", "title", "trade_type", "price", "qty",
                 "owned", "change_pct", "value">>

KeyIndex(keys, k) == CHOOSE i \in DOMAIN keys : keys[i] = k

\* parsed = {key: col.text.strip() for key, col in zip(column_keys, cols)}
parsed(cols) ==
    [k \in Range(column_keys) |-> Strip(cols[KeyIndex(column_keys, k)])]

\* the tuple taken from parsed instead of insider_data: all 17 columns
RecordOfAllColumns(cols) == [i \in DOMAIN column_keys |-> parsed(cols)[column_keys[i]]]

\* insider_data = {...}
insider_data(cols) == [k \in Range(field_names) |-> parsed(cols)[k]]

\* tuple(insider_data.values())
RecordOf(cols) == [i \in DOMAIN field_names |-> insider_data(cols)[field_names[i]]]

\* the dict view of a stored Record
FieldsOf(rec) == [k \in Range(field_names) |-> rec[KeyIndex(field_names, k)]]

\* a 17-cell row of the source table
MkRow(ticker, trade_type, qty, value, d1) ==
    << <<>>, <<"1">>, <<"1">>, ticker, <<"C">>, <<"O">>, <<"T">>, trade_type,
       <<"$", "5">>, qty, <<"9">>, <<"0", "%">>, value, d1, <<>>, <<>>, <<>> >>

\* a purchase of $25,000: exactly the default minimum value
RowA == MkRow(<<"A">>, <<"P">>, <<"+", "1", ",", "0", "0", "0">>,
              <<"+", "$", "2", "5", ",", "0", "0", "0">>, <<"1">>)
\* the same transaction listed again: padded ticker cell, other 1d return
RowA2 == MkRow(<<" ", "A", " ">>, <<"P">>, <<"+", "1", ",", "0", "0", "0">>,
               <<"+", "$", "2", "5", ",", "0", "0", "0">>, <<"2">>)
\* a purchase of $24,999: one below the default minimum value
RowB == MkRow(<<"B">>, <<"P">>, <<"+", "5", "0", "0">>,
              <<"+", "$", "2", "4", ",", "9", "9", "9">>, <<"1">>)
\* a row of 16 cells (schema drift)
RowShort == SubSeq(RowA, 1, 16)

RawRows == {RowA, RowA2, RowB, RowShort}

\* texts of the value cell: empty, the two words in several letter
\* cases, amounts at and around the thresholds, a negative amount, texts
\* float() rejects, and words float() accepts
ValueTexts ==
    {<<>>,
     <<"N", "/", "A">>,
     <<"n", "/", "a">>,
     <<"N", "E", "W">>,
     <<"$", "2", "5", ",", "0", "0", "0">>,
     <<"$", "2", "4", ",", "9", "9", "9">>,
     <<"$", "1", ",", "2", "3", "4", ".", "5", "0">>,
     <<"-", "$", "5", "0", ",", "0", "0", "0">>,
     <<"a", "b", "c">>,
     <<"1", ".", "2", ".", "3">>,
     <<"n", "a", "n">>,
     <<"-", "I", "n", "f", "i", "n", "i", "t", "y">>}

\* texts of the qty cell
QtyTexts ==
    {<<"+", "1", ",", "0", "0", "0">>,
     <<"-", "2", ",", "0", "0", "0">>,
     <<"9", "9">>,
     <<"1", "0", "0">>,
     <<"n", "e", "w">>,
     <<"N", "a", "N">>}

\* the rows of the source of SpecFilter: every combination of two tickers,
\* two trade types and the texts above
FilterRows ==
    {MkRow(ticker, trade_type, qty, value, <<"1">>) :
        ticker \in {<<"A">>, <<"B">>}, trade_type \in {<<"P">>, <<"S">>},
        qty \in QtyTexts, value \in ValueTexts}

(* ------------------------------------------------------------------ *)
(* Configuration                                                       *)
(* ------------------------------------------------------------------ *)
\* config.yaml as loaded by _load_config (the fields the pipeline reads;
\* min_transaction_value in whole units, as written in the file);
\* null_keys are the keys of the filters section the file leaves without a
\* value, which yaml.safe_load gives as None
ConfigDefault ==
    [ start_year |-> 2024, start_month |-> 1,
      max_workers |-> 2, retry_attempts |-> 3,
      min_transaction_value |-> 25000,
      transaction_types |-> {<<"P">>},
      exclude_companies |-> {},
      include_companies |-> {},
      min_shares_traded |-> 100,
      output_format |-> <<"c", "s", "v">>,
      cache_enabled |-> TRUE, cache_max_age |-> 1,
      null_keys |-> {} ]

\* no minimum value, every transaction type
ConfigLoose ==
    [ConfigDefault EXCEPT !.min_transaction_value = 0, !.transaction_types = {}]
ConfigNoCache == [ConfigDefault EXCEPT !.cache_enabled = FALSE]
ConfigLowRetry == [ConfigDefault EXCEPT !.retry_attempts = 2]
ConfigOneWorker == [ConfigDefault EXCEPT !.max_workers = 1]
\* one month more of history: three work units
ConfigLong == [ConfigDefault EXCEPT !.start_year = 2023, !.start_month = 12]

\* the same configuration starting at the month m of 2024
StartingAt(cfg, m) == [cfg EXCEPT !.start_year = 2024, !.start_month = m]

\* configurations of the runs of Spec: one work unit, the current month
RunConfigs ==
    {StartingAt(c, 2) : c \in {ConfigDefault, ConfigLoose, ConfigNoCache, ConfigLowRetry}}

\* configurations of the runs of SpecPool: two or three work units
PoolConfigs == {ConfigDefault, ConfigOneWorker, ConfigLong}

\* the month after the month d
NextMonth(d) ==
    IF d.month = 12 THEN [year |-> d.year + 1, month |-> 1]
    ELSE [year |-> d.year, month |-> d.month + 1]

\* current_year = datetime.now().year read in the month d, then
\* current_month = datetime.now().month read in the month e
Reading(d, e) == [year |-> d.year, month |-> e.month, first |-> d, second |-> e]

\* the two readings of the runs of Spec and SpecPool, both in February 2024
Today == Reading([year |-> 2024, month |-> 2], [year |-> 2024, month |-> 2])

\* the configurations of SpecFilter: each check of _apply_filters on and
\* off, and the two thresholds at several values
FilterConfigs ==
    {StartingAt(c, 2) : c \in
        {ConfigDefault,
         [ConfigDefault EXCEPT !.transaction_types = {}],
         [ConfigDefault EXCEPT !.exclude_companies = {<<"A">>}],
         [ConfigDefault EXCEPT !.include_companies = {<<"A">>}],
         [ConfigDefault EXCEPT !.include_companies = {<<"B">>},
                               !.exclude_companies = {<<"B">>}],
         [ConfigLoose EXCEPT !.min_shares_traded = 0],
         [ConfigDefault EXCEPT !.min_transaction_value = 1234],
         [ConfigLoose EXCEPT !.min_transaction_value = 0 - 100000,
                             !.min_shares_traded = 2000]}}

\* the values of output.format in config.yaml: the two formats _save_data
\* writes, one of them in capitals, and two it has no branch for
OutputFormats ==
    {<<"c", "s", "v">>, <<"C", "S", "V">>, <<"p", "a", "r", "q", "u", "e", "t">>,
     <<"j", "s", "o", "n">>, <<"x", "l", "s", "x">>}

\* the configurations of SpecSave
SaveConfigs ==
    {StartingAt([ConfigDefault EXCEPT !.output_format = f], 2) : f \in OutputFormats}

\* the configurations of SpecNull: config.yaml with no key, one key, or
\* two, of the filters section left without a value
NullConfigs ==
    {StartingAt([ConfigDefault EXCEPT !.null_keys = k], 2) :
        k \in {{}, {"exclude_companies"}, {"min_transaction_value"}, {"min_shares_traded"},
               {"transaction_types", "include_companies"}}}

\* the configurations of SpecUnits: every start month of the MaxYears
\* years before Today, of the year of Today and of the year after
StartConfigs ==
    {[ConfigDefault EXCEPT !.start_year = y, !.start_month = m] :
        y \in (Today.year - MaxYears)..(Today.year + 1), m \in 1..12}

\* the months in which the runs of SpecUnits start: every month of the
\* year of Today and of the year before
Days == {[year |-> y, month |-> m] : y \in (Today.year - 1)..Today.year, m \in 1..12}

\* what the two calls of datetime.now() can give to a run started in one
\* of Days: the second call is made in the same month, or, the month
\* having ended between the calls, in the next
Readings == {Reading(d, e) : d \in Days, e \in Days} \cap
            {r \in [year : Int, month : Int, first : Days, second : Days] :
                r.second \in {r.first, NextMonth(r.first)}}

(* ------------------------------------------------------------------ *)
(* Filter Engine                                                       *)
(* ------------------------------------------------------------------ *)
\* the type check without the test for a configured set: an empty
\* transaction_types rejects every record
apply_filters_types_always(data, cfg) ==
    IF data["trade_type"] \notin cfg.transaction_types
    THEN FALSE
    ELSE IF data["ticker"] \in cfg.exclude_companies
    THEN FALSE
    ELSE IF cfg.include_companies # {} /\ data["ticker"] \notin cfg.include_companies
    THEN FALSE
    ELSE IF FloatLt(clean_numeric(data["value"]), Num(100 * cfg.min_transaction_value))
    THEN FALSE
    ELSE IF FloatLt(FloatAbs(clean_numeric(data["qty"])), Num(100 * cfg.min_shares_traded))
    THEN FALSE
    ELSE TRUE

\* the value check with <= : a value equal to the minimum is rejected
apply_filters_exclusive(data, cfg) ==
    IF cfg.transaction_types # {} /\ data["trade_type"] \notin cfg.transaction_types
    THEN FALSE
    ELSE IF data["ticker"] \in cfg.exclude_companies
    THEN FALSE
    ELSE IF cfg.include_companies # {} /\ data["ticker"] \notin cfg.include_companies
    THEN FALSE
    ELSE IF ~FloatLt(Num(100 * cfg.min_transaction_value), clean_numeric(data["value"]))
    THEN FALSE
    ELSE IF FloatLt(FloatAbs(clean_numeric(data["qty"])), Num(100 * cfg.min_shares_traded))
    THEN FALSE
    ELSE TRUE

\* the try block of _apply_filters: the value it returns, or "raised" when
\* a test raises TypeError (x in None, a float < None); None is false where
\* a list is tested for truth
filter_outcome(data, cfg) ==
    IF /\ "transaction_types" \notin cfg.null_keys
       /\ cfg.transaction_types # {}
       /\ data["trade_type"] \notin cfg.transaction_types
    THEN "false"
    ELSE IF "exclude_companies" \in cfg.null_keys
    THEN "raised"
    ELSE IF data["ticker"] \in cfg.exclude_companies
    THEN "false"
    ELSE IF /\ "include_companies" \notin cfg.null_keys
            /\ cfg.include_companies # {}
            /\ data["ticker"] \notin cfg.include_companies
    THEN "false"
    ELSE IF "min_transaction_value" \in cfg.null_keys
    THEN "raised"
    ELSE IF FloatLt(clean_numeric(data["value"]), Num(100 * cfg.min_transaction_value))
    THEN "false"
    ELSE IF "min_shares_traded" \in cfg.null_keys
    THEN "raised"
    ELSE IF FloatLt(FloatAbs(clean_numeric(data["qty"])), Num(100 * cfg.min_shares_traded))
    THEN "false"
    ELSE "true"

\* the handler returning True: a record whose tests raise is kept
apply_filters_fail_open(data, cfg) == filter_outcome(data, cfg) # "false"

\* the share check on the signed quantity as well: a sale of any size is
\* below a positive min_shares_traded
apply_filters_signed_shares(data, cfg) ==
    /\ filter_outcome(data, cfg) = "true"
    /\ ~FloatLt(clean_numeric(data["qty"]), Num(100 * cfg.min_shares_traded))

\* OpenInsiderScraper._apply_filters: except Exception: ... return False
apply_filters(data, cfg) == filter_outcome(data, cfg) = "true"

\* the warnings _apply_filters logs for the rows of a table: one for each
\* row of full length whose tests raise
filter_warnings(rows, cfg) ==
    Cardinality({i \in DOMAIN rows :
                    /\ Len(rows[i]) = Len(column_keys)
                    /\ filter_outcome(insider_data(rows[i]), cfg) = "raised"})

\* the loop leaving at the first row of another length: break for continue
RECURSIVE process_rows_break(_, _)
process_rows_break(rows, cfg) ==
    IF rows = <<>> THEN {}
    ELSE LET cols == Head(rows) IN
         IF Len(cols) # Len(column_keys) THEN {}
         ELSE IF apply_filters(insider_data(cols), cfg)
              THEN {RecordOf(cols)} \cup process_rows_break(Tail(rows), cfg)
              ELSE process_rows_break(Tail(rows), cfg)

\* the rows of the table that enter data: for row in rows: ... data.add(...)
RECURSIVE process_rows(_, _)
process_rows(rows, cfg) ==
    IF rows = <<>> THEN {}
    ELSE LET cols == Head(rows)
             rest == process_rows(Tail(rows), cfg) IN
         IF Len(cols) # Len(column_keys) THEN rest
         ELSE IF apply_filters(insider_data(cols), cfg)
              THEN {RecordOf(cols)} \cup rest
              ELSE rest

(* ------------------------------------------------------------------ *)
(* Work units                                                          *)
(* ------------------------------------------------------------------ *)
\* range(a, b) as an ascending sequence
PyRange(a, b) == IF b > a THEN [i \in 1..(b - a) |-> a + i - 1] ELSE <<>>

\* the inner loop going through the months of a year backwards
MonthsOf_descending(year, cfg, cur) ==
    LET lo == IF year = cfg.start_year THEN cfg.start_month ELSE 1
        hi == IF year = cur.year THEN cur.month + 1 ELSE 13
        ms == PyRange(lo, hi) IN
    [i \in DOMAIN ms |-> <<year, ms[Len(ms) + 1 - i]>>]

\* the inner loop of scrape for one year
MonthsOf(year, cfg, cur) ==
    LET lo == IF year = cfg.start_year THEN cfg.start_month ELSE 1
        hi == IF year = cur.year THEN cur.month + 1 ELSE 13
        ms == PyRange(lo, hi) IN
    [i \in DOMAIN ms |-> <<year, ms[i]>>]

RECURSIVE UnitsFrom(_, _, _)
UnitsFrom(year, cfg, cur) ==
    IF year > cur.year THEN <<>>
    ELSE MonthsOf(year, cfg, cur) \o UnitsFrom(year + 1, cfg, cur)

\* the (year, month) pairs scrape submits, in submission order
WorkUnits(cfg, cur) == UnitsFrom(cfg.start_year, cfg, cur)

(* ------------------------------------------------------------------ *)
(* Responses of the source                                             *)
(* ------------------------------------------------------------------ *)
\* what BeautifulSoup finds in response.text: whether a table of class
\* tinytable is present, whether it has a tbody, and the cells of its rows
Bodies ==
    {[table |-> FALSE, tbody |-> FALSE, rows |-> <<>>],
     [table |-> TRUE, tbody |-> FALSE, rows |-> <<>>]}
    \cup {[table |-> TRUE, tbody |-> TRUE, rows |-> r] : r \in SeqsUpTo(RawRows, MaxRows)}

\* requests.get returns a Response for every HTTP status
Responses == {[status |-> st, body |-> b] : st \in {200, 503}, b \in Bodies}

\* the responses of a source that is up and lists one purchase or nothing
FewResponses ==
    {[status |-> 200, body |-> b] :
        b \in {[table |-> FALSE, tbody |-> FALSE, rows |-> <<>>],
               [table |-> TRUE, tbody |-> TRUE, rows |-> <<RowA>>]}}

\* the responses of a source that is up and lists no transaction: a page
\* without the table, a table without tbody, a table with an empty tbody
EmptyResponses ==
    {[status |-> 200, body |-> b] :
        b \in {[table |-> FALSE, tbody |-> FALSE, rows |-> <<>>],
               [table |-> TRUE, tbody |-> FALSE, rows |-> <<>>],
               [table |-> TRUE, tbody |-> TRUE, rows |-> <<>>]}}

\* the responses of a source that is up and lists one transaction, any of
\* FilterRows, or the two purchases at and just below the default minimum
CellResponses ==
    {[status |-> 200, body |-> [table |-> TRUE, tbody |-> TRUE, rows |-> r]] :
        r \in {<<cols>> : cols \in FilterRows} \cup {<<RowA, RowB>>}}

NoResponse == [status |-> 0, body |-> [table |-> FALSE, tbody |-> FALSE, rows |-> <<>>]]

(* ------------------------------------------------------------------ *)
(* The date window of a work unit                                      *)
(* ------------------------------------------------------------------ *)
\* the proleptic Gregorian calendar of datetime
IsLeapYear(y) == y % 4 = 0 /\ (y % 100 # 0 \/ y % 400 = 0)

DaysInMonth(y, m) ==
    IF m = 2 THEN (IF IsLeapYear(y) THEN 29 ELSE 28)
    ELSE IF m \in {4, 6, 9, 11} THEN 30
    ELSE 31

\* datetime(year, month, day)
Date(y, m, d) == [year |-> y, month |-> m, day |-> d]

\* the date a day count beyond or before the days of its month stands for
RECURSIVE Normalize(_)
Normalize(d) ==
    IF d.day > DaysInMonth(d.year, d.month)
    THEN Normalize(IF d.month = 12
                   THEN Date(d.year + 1, 1, d.day - DaysInMonth(d.year, d.month))
                   ELSE Date(d.year, d.month + 1, d.day - DaysInMonth(d.year, d.month)))
    ELSE IF d.day < 1
    THEN Normalize(IF d.month = 1
                   THEN Date(d.year - 1, 12, d.day + DaysInMonth(d.year - 1, 12))
                   ELSE Date(d.year, d.month - 1, d.day + DaysInMonth(d.year, d.month - 1)))
    ELSE d

\* d + timedelta(days=n)
AddDays(d, n) == Normalize([d EXCEPT !.day = @ + n])

\* d.replace(day=k)
ReplaceDay(d, k) == [d EXCEPT !.day = k]

\* n as decimal text of at least w digits: %m and %d (w = 2), %Y (w = 4)
RECURSIVE ZeroPadded(_, _)
ZeroPadded(n, w) ==
    LET t == IntText(n) IN IF Len(t) >= w THEN t ELSE <<"0">> \o ZeroPadded(n, w - 1)

\* d.strftime('%m/%d/%Y')
strftime(d) ==
    ZeroPadded(d.month, 2) \o <<"/">> \o ZeroPadded(d.day, 2) \o <<"/">> \o ZeroPadded(d.year, 4)

\* line 109: datetime(year, month, 1)
start_date(year, month) == Date(year, month, 1)

\* the step of 30 days: it stays within a month of 31 days
end_date_step_30(year, month) ==
    AddDays(ReplaceDay(AddDays(Date(year, month, 1), 30), 1), -1)

\* line 110: (datetime(year, month, 1) + timedelta(days=32)).replace(day=1)
\*           - timedelta(days=1)
end_date(year, month) ==
    AddDays(ReplaceDay(AddDays(Date(year, month, 1), 32), 1), -1)

\* the fdr parameter of the url of line 113: {start_date}+-+{end_date}
fdr(year, month) ==
    strftime(start_date(year, month)) \o <<"+", "-", "+">> \o strftime(end_date(year, month))

(* ------------------------------------------------------------------ *)
(* Cache Store                                                         *)
(* ------------------------------------------------------------------ *)
\* the file name of an entry without the month: data_{year}.json
get_cache_path_of_year(year, month) ==
    <<"d", "a", "t", "a", "_">> \o IntText(year) \o <<".", "j", "s", "o", "n">>

\* OpenInsiderScraper._get_cache_path: data_{year}_{month}.json in cache_dir
get_cache_path(year, month) ==
    <<"d", "a", "t", "a", "_">> \o IntText(year) \o <<"_">> \o IntText(month)
        \o <<".", "j", "s", "o", "n">>

\* a cache file: mtime, whether it holds well-formed JSON, the JSON array
NoFile == [exists |-> FALSE, mtime |-> 0, readable |-> FALSE, rows |-> <<>>]

\* an empty cache directory
NoFiles == [p \in {} |-> NoFile]

\* the directory in which the units of the domain of left have the files
\* left gives them
FilesOf(left) ==
    LET present == {u \in DOMAIN left : left[u].exists} IN
    [p \in {get_cache_path(u[1], u[2]) : u \in present} |->
        left[CHOOSE u \in present : get_cache_path(u[1], u[2]) = p]]

\* _is_cache_valid with the bound included: age <= cache_max_age * 3600
is_cache_valid_inclusive(entry, t, cfg) ==
    IF ~entry.exists THEN FALSE
    ELSE (t - entry.mtime) <= cfg.cache_max_age * SecondsPerHour

\* OpenInsiderScraper._is_cache_valid, with t the value of datetime.now()
is_cache_valid(entry, t, cfg) ==
    IF ~entry.exists THEN FALSE
    ELSE (t - entry.mtime) < cfg.cache_max_age * SecondsPerHour

\* the load keeping the first array of the file only
load_cache_first(entry) == IF entry.rows = <<>> THEN {} ELSE {Head(entry.rows)}

\* set(tuple(x) for x in json.load(f))
load_cache(entry) == Range(entry.rows)

\* the JSON arrays json.dump([list(x) for x in data], f) can write
dump_cache(data) == Orderings(data)

(* ------------------------------------------------------------------ *)
(* State                                                               *)
(* ------------------------------------------------------------------ *)
VARIABLES
    config,     \* self.config of the scraper of the current run
    today,      \* the year and month datetime.now() gives to scrape
    site,       \* which responses the source can serve: see Served
    now,        \* the last value read from the clock, in seconds
    cache,      \* cache_dir: path -> the file at that path
    orch,       \* where scrape is
    futures,    \* the futures list of scrape: units in submission order
    pc,         \* unit -> where its task is
    attempts,   \* unit -> calls of requests.get made by _fetch_data
    response,   \* unit -> the local response of _get_data_for_month
    data,       \* unit -> the local data of _get_data_for_month
    result,     \* unit -> the value its future holds
    outcome,    \* unit -> the branch of _get_data_for_month its task took
    age,        \* unit -> <<the local age of _is_cache_valid>>, <<>> before
                \* it is computed
    writes,     \* unit -> times its task opened the cache file for writing
    all_data,   \* the list all_data of scrape
    contrib,    \* unit -> what future.result() of the unit added to all_data
    consumed,   \* the futures as_completed has yielded
    pbar,       \* the progress counter
    log,        \* unit -> number of warning / error / future-error records
    output,     \* the output file
    is_running,     \* bot_api.is_running of the web API (src/app.py)
    status,         \* bot_api.status
    last_run,       \* bot_api.last_run: <<>> for None, <<w>> once the worker
                    \* w has set it
    log_messages,   \* bot_api.log_messages, a message by the line that adds it
    api_run,        \* POST /api/run number -> where its handler is
    reply,          \* POST /api/run number -> the status code it was answered
                    \* with, 0 before
    extractor_worker    \* POST /api/run number -> where the thread it started is

vars == <<config, today, site, now, cache, orch, futures, pc, attempts, response, data,
          result, outcome, age, writes, all_data, contrib, consumed, pbar,
          log, output, is_running, status, last_run, log_messages, api_run, reply,
          extractor_worker>>

taskVars == <<pc, attempts, response, data, result, outcome, age, writes, log>>
orchVars == <<orch, futures, all_data, contrib, consumed, pbar, output>>

\* the state of the scraper process
scraperVars == <<config, today, site, now, cache, taskVars, orchVars>>

\* the state of the web API process
apiVars == <<is_running, status, last_run, log_messages, api_run, reply, extractor_worker>>

\* the increments by which the clock can be found advanced at a reading:
\* nothing, or half an hour
Elapse == {0, SecondsPerHour \div 2}

\* the clock stops advancing at this many seconds
MaxTime == MaxTicks * (SecondsPerHour \div 2)

Terminal == {"returned", "raised"}
InProgress == {"CacheRead", "Fetch", "Parse", "CacheWrite", "Return"}

NoLog == [warning |-> 0, error |-> 0, future_error |-> 0]
NoOutput == [written |-> 0, rows |-> <<>>]

\* the pairs the loops of scrape go through
Units == WorkUnits(config, today)

\* the units that have a task in the current run
Tasks == DOMAIN pc

\* what is at the cache path of the unit u
cache_file(u) ==
    LET p == get_cache_path(u[1], u[2]) IN
    IF p \in DOMAIN cache THEN cache[p] ELSE NoFile

\* the directory after open(path, 'w') and what followed left file at path
write_file(path, file) ==
    [p \in DOMAIN cache \cup {path} |-> IF p = path THEN file ELSE cache[p]]

\* the POST /api/run requests, in the order in which they are received
Posts == 1..MaxPosts

\* bot_api = InsiderBotAPI(): no request received, no thread started
ApiInit ==
    /\ is_running = FALSE
    /\ status = "idle"
    /\ last_run = <<>>
    /\ log_messages = <<>>
    /\ api_run = [r \in Posts |-> "unsent"]
    /\ reply = [r \in Posts |-> 0]
    /\ extractor_worker = [r \in Posts |-> "none"]

\* the state in which a run starts
FreshRun ==
    /\ orch = "init"
    /\ futures = <<>>
    /\ pc = [u \in Range(Units) |-> "idle"]
    /\ attempts = [u \in Range(Units) |-> 0]
    /\ response = [u \in Range(Units) |-> NoResponse]
    /\ data = [u \in Range(Units) |-> {}]
    /\ result = [u \in Range(Units) |-> {}]
    /\ outcome = [u \in Range(Units) |-> "none"]
    /\ age = [u \in Range(Units) |-> <<>>]
    /\ writes = [u \in Range(Units) |-> 0]
    /\ all_data = <<>>
    /\ contrib = [u \in Range(Units) |-> <<>>]
    /\ consumed = {}
    /\ pbar = 0
    /\ log = [u \in Range(Units) |-> NoLog]
    /\ output = NoOutput

\* OpenInsiderScraper.__init__ on a machine whose cache directory was
\* just created
Init ==
    /\ config \in RunConfigs
    /\ today = Today
    /\ site = "any"
    /\ now = 0
    /\ cache = NoFiles
    /\ FreshRun
    /\ ApiInit

(* ------------------------------------------------------------------ *)
(* Worker pool                                                         *)
(* ------------------------------------------------------------------ *)
Served ==
    CASE site = "any" -> Responses
      [] site = "few" -> FewResponses
      [] site = "empty" -> EmptyResponses
      [] site = "cells" -> CellResponses

Running == {u \in Tasks : pc[u] \in InProgress}

\* a pool that starts a thread for every queued task
worker_available_unbounded == TRUE

\* ThreadPoolExecutor(max_workers=...): a queued task is taken only by one
\* of at most max_workers threads
worker_available == Cardinality(Running) < config.max_workers

\* the work queue is first in, first out
NextQueued(u) ==
    \E i \in DOMAIN futures :
        /\ futures[i] = u
        /\ pc[u] = "queued"
        /\ \A j \in 1..(i - 1) : pc[futures[j]] # "queued"

\* the values datetime.now() can return at the next reading
ClockReadings == {t \in {now + d : d \in Elapse} : t <= MaxTime}

(* ------------------------------------------------------------------ *)
(* _get_data_for_month                                                 *)
(* ------------------------------------------------------------------ *)
\* the task leaves _get_data_for_month: its locals are gone
Leave(u, how, value, branch) ==
    /\ pc' = [pc EXCEPT ![u] = how]
    /\ result' = [result EXCEPT ![u] = value]
    /\ outcome' = [outcome EXCEPT ![u] = branch]
    /\ response' = [response EXCEPT ![u] = NoResponse]
    /\ data' = [data EXCEPT ![u] = {}]

\* the handler logging and raising again
except_handler_reraise(u, branch) ==
    /\ Leave(u, "raised", {}, branch)
    /\ log' = [log EXCEPT ![u].error = @ + 1]

\* except Exception as e: self.logger.error(...); return set()
except_handler(u, branch) ==
    /\ Leave(u, "returned", {}, branch)
    /\ log' = [log EXCEPT ![u].error = @ + 1]

\* the cache test with the flag negated: the cache is used when disabled
cache_hit_flag_negated(u, t) == ~config.cache_enabled /\ is_cache_valid(cache_file(u), t, config)

\* if self.config.cache_enabled and self._is_cache_valid(cache_path)
cache_hit(u, t) == config.cache_enabled /\ is_cache_valid(cache_file(u), t, config)

\* a worker thread takes the task of u; lines 104-105
worker_start(u) ==
    /\ NextQueued(u)
    /\ worker_available
    /\ IF config.cache_enabled /\ cache_file(u).exists
       THEN \E t \in ClockReadings :
               /\ now' = t
               /\ age' = [age EXCEPT ![u] = <<t - cache_file(u).mtime>>]
               /\ pc' = [pc EXCEPT ![u] = IF cache_hit(u, t) THEN "CacheRead" ELSE "Fetch"]
       ELSE /\ pc' = [pc EXCEPT ![u] = IF cache_hit(u, now) THEN "CacheRead" ELSE "Fetch"]
            /\ UNCHANGED <<now, age>>
    /\ UNCHANGED <<apiVars, config, today, site, cache, attempts, response, data, result, outcome, writes, log>>
    /\ UNCHANGED orchVars

\* the read inside a try of its own: an entry that cannot be loaded is a
\* miss and the unit is fetched
cache_read_falling_back(u) ==
    /\ pc[u] = "CacheRead"
    /\ IF cache_file(u).readable
       THEN Leave(u, "returned", load_cache(cache_file(u)), "hit")
       ELSE /\ pc' = [pc EXCEPT ![u] = "Fetch"]
            /\ UNCHANGED <<result, outcome, response, data>>
    /\ UNCHANGED <<apiVars, config, today, site, now, cache, attempts, age, writes, log>>
    /\ UNCHANGED orchVars

\* the stored records put through the filter of the run again
cache_read_refiltered(u) ==
    /\ pc[u] = "CacheRead"
    /\ IF cache_file(u).readable
       THEN Leave(u, "returned",
                  {r \in load_cache(cache_file(u)) : apply_filters(FieldsOf(r), config)}, "hit")
       ELSE Leave(u, "raised", {}, "cache_error")
    /\ UNCHANGED <<apiVars, config, today, site, now, cache, attempts, age, writes, log>>
    /\ UNCHANGED orchVars

\* lines 106-107: with open(cache_path) ...: return set(... json.load(f))
cache_read(u) ==
    /\ pc[u] = "CacheRead"
    /\ IF cache_file(u).readable
       THEN Leave(u, "returned", load_cache(cache_file(u)), "hit")
       ELSE Leave(u, "raised", {}, "cache_error")
    /\ UNCHANGED <<apiVars, config, today, site, now, cache, attempts, age, writes, log>>
    /\ UNCHANGED orchVars

\* @retry(tries=3, ...): the failure propagates once n attempts were made
retry_exhausted(n) == n >= Tries

\* one attempt of _fetch_data: requests.get returns a response
fetch_data_ok(u) ==
    /\ pc[u] = "Fetch"
    /\ \E r \in Served :
          /\ response' = [response EXCEPT ![u] = r]
          /\ attempts' = [attempts EXCEPT ![u] = @ + 1]
          /\ pc' = [pc EXCEPT ![u] = "Parse"]
    /\ UNCHANGED <<apiVars, config, today, site, now, cache, data, result, outcome, age, writes, log>>
    /\ UNCHANGED orchVars

\* the failed unit cached as empty: the except handler writes [] to the
\* entry file
fetch_data_error_caching_empty(u) ==
    /\ pc[u] = "Fetch"
    /\ attempts' = [attempts EXCEPT ![u] = @ + 1]
    /\ IF retry_exhausted(attempts[u] + 1)
       THEN /\ except_handler(u, "fetch_failed")
            /\ cache' = IF config.cache_enabled
                        THEN write_file(get_cache_path(u[1], u[2]),
                                [exists |-> TRUE, mtime |-> now, readable |-> TRUE, rows |-> <<>>])
                        ELSE cache
       ELSE UNCHANGED <<pc, result, outcome, response, data, log, cache>>
    /\ UNCHANGED <<apiVars, config, today, site, now, age, writes>>
    /\ UNCHANGED orchVars

\* one attempt of _fetch_data: requests.get raises (transport error, timeout)
fetch_data_error(u) ==
    /\ pc[u] = "Fetch"
    /\ attempts' = [attempts EXCEPT ![u] = @ + 1]
    /\ IF retry_exhausted(attempts[u] + 1)
       THEN except_handler(u, "fetch_failed")
       ELSE UNCHANGED <<pc, result, outcome, response, data, log>>
    /\ UNCHANGED <<apiVars, config, today, site, now, cache, age, writes>>
    /\ UNCHANGED orchVars

\* the step after the rows without the cache write
after_rows_no_write == "Return"

\* the step after the rows with the cache write whatever the flag
after_rows_always_write == "CacheWrite"

\* line 159: if self.config.cache_enabled
after_rows == IF config.cache_enabled THEN "CacheWrite" ELSE "Return"

\* the absent table handled as a failure: the error of the except handler
no_table_as_failure(u) == except_handler(u, "no_table")

\* lines 119-121: if not table: self.logger.warning(...); return set()
no_table(u) ==
    /\ Leave(u, "returned", {}, "no_table")
    /\ log' = [log EXCEPT ![u].warning = @ + 1]

\* the parse after response.raise_for_status(): a status that is not a
\* success is an exception of the try block
parse_raise_for_status(u) ==
    /\ pc[u] = "Parse"
    /\ LET body == response[u].body IN
       IF response[u].status # 200
       THEN except_handler(u, "parse_error")
       ELSE IF ~body.table
       THEN no_table(u)
       ELSE IF ~body.tbody
       THEN except_handler(u, "parse_error")
       ELSE /\ data' = [data EXCEPT ![u] = process_rows(body.rows, config)]
            /\ pc' = [pc EXCEPT ![u] = after_rows]
            /\ log' = [log EXCEPT ![u].warning = @ + filter_warnings(body.rows, config)]
            /\ UNCHANGED <<response, result, outcome>>
    /\ UNCHANGED <<apiVars, config, today, site, now, cache, attempts, age, writes>>
    /\ UNCHANGED orchVars

\* lines 117-157: find the table, walk its rows
parse(u) ==
    /\ pc[u] = "Parse"
    /\ LET body == response[u].body IN
       IF ~body.table
       THEN no_table(u)
       ELSE IF ~body.tbody
       THEN \* table.find('tbody') is None: AttributeError
            except_handler(u, "parse_error")
       ELSE /\ data' = [data EXCEPT ![u] = process_rows(body.rows, config)]
            /\ pc' = [pc EXCEPT ![u] = after_rows]
            /\ log' = [log EXCEPT ![u].warning = @ + filter_warnings(body.rows, config)]
            /\ UNCHANGED <<response, result, outcome>>
    /\ UNCHANGED <<apiVars, config, today, site, now, cache, attempts, age, writes>>
    /\ UNCHANGED orchVars

\* lines 159-161: the entry file is written
cache_write_ok(u) ==
    /\ pc[u] = "CacheWrite"
    /\ \E t \in ClockReadings, rows \in dump_cache(data[u]) :
          /\ now' = t
          /\ cache' = write_file(get_cache_path(u[1], u[2]),
                [exists |-> TRUE, mtime |-> t, readable |-> TRUE, rows |-> rows])
    /\ pc' = [pc EXCEPT ![u] = "Return"]
    /\ writes' = [writes EXCEPT ![u] = @ + 1]
    /\ UNCHANGED <<apiVars, config, today, site, attempts, response, data, result, outcome, age, log>>
    /\ UNCHANGED orchVars

\* the failed write handled where it happens: the error is logged and the
\* records collected are returned all the same
cache_write_error_keeping_data(u) ==
    /\ pc[u] = "CacheWrite"
    /\ \/ UNCHANGED <<now, cache, writes>>
       \/ \E t \in ClockReadings :
             /\ now' = t
             /\ cache' = write_file(get_cache_path(u[1], u[2]),
                   [exists |-> TRUE, mtime |-> t, readable |-> FALSE, rows |-> <<>>])
             /\ writes' = [writes EXCEPT ![u] = @ + 1]
    /\ Leave(u, "returned", data[u], "write_failed")
    /\ log' = [log EXCEPT ![u].error = @ + 1]
    /\ UNCHANGED <<apiVars, config, today, site, attempts, age>>
    /\ UNCHANGED orchVars

\* lines 159-161: open() raises, or the write fails after open() truncated
\* the file
cache_write_error(u) ==
    /\ pc[u] = "CacheWrite"
    /\ \/ UNCHANGED <<now, cache, writes>>
       \/ \E t \in ClockReadings :
             /\ now' = t
             /\ cache' = write_file(get_cache_path(u[1], u[2]),
                   [exists |-> TRUE, mtime |-> t, readable |-> FALSE, rows |-> <<>>])
             /\ writes' = [writes EXCEPT ![u] = @ + 1]
    /\ except_handler(u, "write_failed")
    /\ UNCHANGED <<apiVars, config, today, site, attempts, age>>
    /\ UNCHANGED orchVars

\* a task adding its records to the list of scrape itself
return_data_extending(u) ==
    /\ pc[u] = "Return"
    /\ \E ord \in Orderings(data[u]) : all_data' = all_data \o ord
    /\ Leave(u, "returned", data[u], "ok")
    /\ UNCHANGED <<apiVars, config, today, site, now, cache, attempts, age, writes, log>>
    /\ UNCHANGED <<orch, futures, contrib, consumed, pbar, output>>

\* line 163: return data
return_data(u) ==
    /\ pc[u] = "Return"
    /\ Leave(u, "returned", data[u], "ok")
    /\ UNCHANGED <<apiVars, config, today, site, now, cache, attempts, age, writes, log>>
    /\ UNCHANGED orchVars

(* ------------------------------------------------------------------ *)
(* scrape                                                              *)
(* ------------------------------------------------------------------ *)
\* lines 196-201: all_data = [], the pool is created
scrape_begin ==
    /\ orch = "init"
    /\ orch' = "submitting"
    /\ UNCHANGED <<apiVars, config, today, site, now, cache, futures, all_data, contrib, consumed, pbar, output>>
    /\ UNCHANGED taskVars

\* line 208: futures.append(executor.submit(self._get_data_for_month, ...))
submit ==
    /\ orch = "submitting"
    /\ Len(futures) < Len(Units)
    /\ LET u == Units[Len(futures) + 1] IN
          /\ futures' = Append(futures, u)
          /\ pc' = [pc EXCEPT ![u] = "queued"]
    /\ UNCHANGED <<apiVars, config, today, site, now, cache, orch, all_data, contrib, consumed, pbar, output>>
    /\ UNCHANGED <<attempts, response, data, result, outcome, age, writes, log>>

\* line 210: the submission loops are over, tqdm(total=len(futures))
as_completed_begin ==
    /\ orch = "submitting"
    /\ Len(futures) = Len(Units)
    /\ orch' = "aggregating"
    /\ pbar' = 0
    /\ UNCHANGED <<apiVars, config, today, site, now, cache, futures, all_data, contrib, consumed, output>>
    /\ UNCHANGED taskVars

\* the try block around the whole loop: the first exception ends it
future_result_abort(u) ==
    /\ orch = "aggregating"
    /\ u \in Range(futures) \ consumed
    /\ pc[u] \in Terminal
    /\ IF pc[u] = "returned"
       THEN \E ord \in Orderings(result[u]) :
               /\ all_data' = all_data \o ord
               /\ contrib' = [contrib EXCEPT ![u] = ord]
               /\ pbar' = pbar + 1
               /\ UNCHANGED <<log, orch>>
       ELSE /\ log' = [log EXCEPT ![u].future_error = @ + 1]
            /\ orch' = "saving"
            /\ UNCHANGED <<all_data, contrib, pbar>>
    /\ consumed' = consumed \cup {u}
    /\ UNCHANGED <<apiVars, config, today, site, now, cache, futures, output>>
    /\ UNCHANGED <<pc, attempts, response, data, result, outcome, age, writes>>

\* no try block around future.result(): the exception of a task leaves
\* scrape before _save_data is called
future_result_uncaught(u) ==
    /\ orch = "aggregating"
    /\ u \in Range(futures) \ consumed
    /\ pc[u] \in Terminal
    /\ IF pc[u] = "returned"
       THEN \E ord \in Orderings(result[u]) :
               /\ all_data' = all_data \o ord
               /\ contrib' = [contrib EXCEPT ![u] = ord]
               /\ UNCHANGED <<log, orch>>
       ELSE /\ orch' = "failed"
            /\ UNCHANGED <<all_data, contrib, log>>
    /\ pbar' = pbar + 1
    /\ consumed' = consumed \cup {u}
    /\ UNCHANGED <<apiVars, config, today, site, now, cache, futures, output>>
    /\ UNCHANGED <<pc, attempts, response, data, result, outcome, age, writes>>

\* pbar.update(1) inside the try block: skipped when result() raises
future_result_update_in_try(u) ==
    /\ orch = "aggregating"
    /\ u \in Range(futures) \ consumed
    /\ pc[u] \in Terminal
    /\ IF pc[u] = "returned"
       THEN \E ord \in Orderings(result[u]) :
               /\ all_data' = all_data \o ord
               /\ contrib' = [contrib EXCEPT ![u] = ord]
               /\ pbar' = pbar + 1
               /\ UNCHANGED log
       ELSE /\ log' = [log EXCEPT ![u].future_error = @ + 1]
            /\ UNCHANGED <<all_data, contrib, pbar>>
    /\ consumed' = consumed \cup {u}
    /\ UNCHANGED <<apiVars, config, today, site, now, cache, orch, futures, output>>
    /\ UNCHANGED <<pc, attempts, response, data, result, outcome, age, writes>>


\* the aggregate kept free of duplicates: a record already in all_data is
\* not appended again
future_result_dedup(u) ==
    /\ orch = "aggregating"
    /\ u \in Range(futures) \ consumed
    /\ pc[u] \in Terminal
    /\ IF pc[u] = "returned"
       THEN \E ord \in Orderings(result[u] \ Range(all_data)) :
               /\ all_data' = all_data \o ord
               /\ contrib' = [contrib EXCEPT ![u] = ord]
               /\ UNCHANGED log
       ELSE /\ log' = [log EXCEPT ![u].future_error = @ + 1]
            /\ UNCHANGED <<all_data, contrib>>
    /\ pbar' = pbar + 1
    /\ consumed' = consumed \cup {u}
    /\ UNCHANGED <<apiVars, config, today, site, now, cache, orch, futures, output>>
    /\ UNCHANGED <<pc, attempts, response, data, result, outcome, age, writes>>

\* lines 211-216: as_completed yields the finished future of u
future_result(u) ==
    /\ orch = "aggregating"
    /\ u \in Range(futures) \ consumed
    /\ pc[u] \in Terminal
    /\ IF pc[u] = "returned"
       THEN \E ord \in Orderings(result[u]) :
               /\ all_data' = all_data \o ord
               /\ contrib' = [contrib EXCEPT ![u] = ord]
               /\ UNCHANGED log
       ELSE /\ log' = [log EXCEPT ![u].future_error = @ + 1]
            /\ UNCHANGED <<all_data, contrib>>
    /\ pbar' = pbar + 1
    /\ consumed' = consumed \cup {u}
    /\ UNCHANGED <<apiVars, config, today, site, now, cache, orch, futures, output>>
    /\ UNCHANGED <<pc, attempts, response, data, result, outcome, age, writes>>

\* waiting for the first completed future only
as_completed_exhausted_first == consumed # {} \/ futures = <<>>

\* as_completed has yielded every future
as_completed_exhausted == consumed = Range(futures)

\* lines 216-218: the loop and the with blocks end
as_completed_end ==
    /\ orch = "aggregating"
    /\ as_completed_exhausted
    /\ orch' = "saving"
    /\ UNCHANGED <<apiVars, config, today, site, now, cache, futures, all_data, contrib, consumed, pbar, output>>
    /\ UNCHANGED taskVars

\* lines 231-234: the formats _save_data has a branch for
WrittenFormats == {<<"c", "s", "v">>, <<"p", "a", "r", "q", "u", "e", "t">>}

\* _save_data
save_data ==
    /\ orch = "saving"
    /\ output' = IF Lower(config.output_format) \in WrittenFormats
                 THEN [written |-> output.written + 1, rows |-> all_data]
                 ELSE output
    /\ orch' = "done"
    /\ UNCHANGED <<apiVars, config, today, site, now, cache, futures, all_data, contrib, consumed, pbar>>
    /\ UNCHANGED taskVars

\* the program is started again, with the configuration file as it is then
new_run ==
    /\ orch = "done"
    /\ config' \in RunConfigs
    /\ orch' = "init"
    /\ futures' = <<>>
    /\ pc' = [u \in Range(WorkUnits(config', today)) |-> "idle"]
    /\ attempts' = [u \in Range(WorkUnits(config', today)) |-> 0]
    /\ response' = [u \in Range(WorkUnits(config', today)) |-> NoResponse]
    /\ data' = [u \in Range(WorkUnits(config', today)) |-> {}]
    /\ result' = [u \in Range(WorkUnits(config', today)) |-> {}]
    /\ outcome' = [u \in Range(WorkUnits(config', today)) |-> "none"]
    /\ age' = [u \in Range(WorkUnits(config', today)) |-> <<>>]
    /\ writes' = [u \in Range(WorkUnits(config', today)) |-> 0]
    /\ all_data' = <<>>
    /\ contrib' = [u \in Range(WorkUnits(config', today)) |-> <<>>]
    /\ consumed' = {}
    /\ pbar' = 0
    /\ log' = [u \in Range(WorkUnits(config', today)) |-> NoLog]
    /\ output' = NoOutput
    /\ UNCHANGED <<apiVars, today, site, now, cache>>

(* ------------------------------------------------------------------ *)
(* Web API (src/app.py)                                                *)
(* ------------------------------------------------------------------ *)
\* the threads that were started and have not ended
Alive == {w \in Posts : extractor_worker[w] \notin {"none", "terminated"}}

\* InsiderBotAPI.add_log on the list msgs: append, keep the last 50
add_log(msgs, message) ==
    LET all == Append(msgs, message) IN
    IF Len(all) > 50 THEN SubSeq(all, Len(all) - 49, Len(all)) ELSE all

\* self.add_log for each of the messages, named by the lines that log them
RECURSIVE add_logs(_, _)
add_logs(msgs, messages) ==
    IF messages = <<>> THEN msgs
    ELSE add_logs(add_log(msgs, Head(messages)), Tail(messages))

\* the worker w goes from the line from to the line to
Goes(w, from, to) ==
    /\ extractor_worker[w] = from
    /\ extractor_worker' = [extractor_worker EXCEPT ![w] = to]

\* lines of the worker that log the messages and then assign self.status
logs_and_sets_status(w, from, messages, value, to) ==
    /\ Goes(w, from, to)
    /\ log_messages' = add_logs(log_messages, messages)
    /\ status' = value
    /\ UNCHANGED <<is_running, last_run, api_run, reply>>
    /\ UNCHANGED scraperVars

\* a POST /api/run arrives: Flask calls api_run
receive(r) ==
    /\ api_run[r] = "unsent"
    /\ \A q \in Posts : q < r => api_run[q] # "unsent"
    /\ api_run' = [api_run EXCEPT ![r] = "line150"]
    /\ UNCHANGED <<is_running, status, last_run, log_messages, reply, extractor_worker>>
    /\ UNCHANGED scraperVars

\* lines 150-151: the test of is_running and the 400 reply
api_run_check(r) ==
    /\ api_run[r] = "line150"
    /\ IF is_running
       THEN /\ api_run' = [api_run EXCEPT ![r] = "replied"]
            /\ reply' = [reply EXCEPT ![r] = 400]
       ELSE /\ api_run' = [api_run EXCEPT ![r] = "line153"]
            /\ UNCHANGED reply
    /\ UNCHANGED <<is_running, status, last_run, log_messages, extractor_worker>>
    /\ UNCHANGED scraperVars

\* lines 153-154 and 119-121: run_extractor_async starts the thread, the
\* handler replies 200
run_extractor_async(r) ==
    /\ api_run[r] = "line153"
    /\ extractor_worker' = [extractor_worker EXCEPT ![r] = "line71"]
    /\ api_run' = [api_run EXCEPT ![r] = "replied"]
    /\ reply' = [reply EXCEPT ![r] = 200]
    /\ UNCHANGED <<is_running, status, last_run, log_messages>>
    /\ UNCHANGED scraperVars

\* line 71: self.is_running = True
set_running(w) ==
    /\ Goes(w, "line71", "line72")
    /\ is_running' = TRUE
    /\ UNCHANGED <<status, last_run, log_messages, api_run, reply>>
    /\ UNCHANGED scraperVars

\* line 72: self.status = "running"
set_status_running(w) == logs_and_sets_status(w, "line72", <<>>, "running", "line73")

\* lines 73-75: self.log_messages = [], the first message
clear_logs(w) ==
    /\ Goes(w, "line73", "line80")
    /\ log_messages' = add_log(<<>>, "line75")
    /\ UNCHANGED <<is_running, status, last_run, api_run, reply>>
    /\ UNCHANGED scraperVars

\* what lines 80-86 can come to: the import raises ImportError; the
\* constructor raises; run_full_process raises, returns alerts, returns
\* none. Each with the messages logged on the way and the line that follows
ExtractorExits ==
    {[logged |-> <<>>, to |-> "line99"],
     [logged |-> <<"line82">>, to |-> "line114"],
     [logged |-> <<"line82", "line85">>, to |-> "line114"],
     [logged |-> <<"line82", "line85">>, to |-> "line89"],
     [logged |-> <<"line82", "line85">>, to |-> "line93"]}

\* lines 80-88: the extractor is imported, constructed and run
run_full_process(w) ==
    /\ extractor_worker[w] = "line80"
    /\ \E exit \in ExtractorExits :
          /\ extractor_worker' = [extractor_worker EXCEPT ![w] = exit.to]
          /\ log_messages' = add_logs(log_messages, exit.logged)
    /\ UNCHANGED <<is_running, status, last_run, api_run, reply>>
    /\ UNCHANGED scraperVars

\* lines 89-91: alerts were produced
alerts_produced(w) ==
    logs_and_sets_status(w, "line89", <<"line89", "line90">>, "completed", "line96")

\* lines 93-94: no alerts
no_alerts(w) == logs_and_sets_status(w, "line93", <<"line93">>, "no_data", "line96")

\* line 96: self.last_run = datetime.now()
set_last_run(w) ==
    /\ Goes(w, "line96", "line117")
    /\ last_run' = <<w>>
    /\ UNCHANGED <<is_running, status, log_messages, api_run, reply>>
    /\ UNCHANGED scraperVars

\* lines 98-111: except ImportError: the simulated process
except_import_error(w) ==
    logs_and_sets_status(w, "line99",
        <<"line99", "line100", "line104", "line106", "line108", "line110">>,
        "demo_completed", "line117")

\* the handler that logs the error and leaves self.status as it is
except_exception_status_kept(w) ==
    logs_and_sets_status(w, "line114", <<"line114">>, status, "line117")

\* lines 113-115: except Exception: add_log, self.status = "error"
except_exception(w) ==
    logs_and_sets_status(w, "line114", <<"line114">>, "error", "line117")

\* lines 116-117: finally: self.is_running = False; the thread ends
finally(w) ==
    /\ Goes(w, "line117", "terminated")
    /\ is_running' = FALSE
    /\ UNCHANGED <<status, last_run, log_messages, api_run, reply>>
    /\ UNCHANGED scraperVars

\* lines 69-117: the thread of extractor_worker
worker(w) ==
    \/ set_running(w)
    \/ set_status_running(w)
    \/ clear_logs(w)
    \/ run_full_process(w)
    \/ alerts_produced(w)
    \/ no_alerts(w)
    \/ set_last_run(w)
    \/ except_import_error(w)
    \/ except_exception(w)
    \/ finally(w)

\* lines 147-154: the handler of POST /api/run
post(r) == receive(r) \/ api_run_check(r) \/ run_extractor_async(r)

NextApi == \E r \in Posts : post(r) \/ worker(r)

(* ------------------------------------------------------------------ *)
(* Specifications                                                      *)
(* ------------------------------------------------------------------ *)
task(u) ==
    \/ worker_start(u)
    \/ cache_read(u)
    \/ fetch_data_ok(u)
    \/ fetch_data_error(u)
    \/ parse(u)
    \/ cache_write_ok(u)
    \/ cache_write_error(u)
    \/ return_data(u)

scrape ==
    \/ scrape_begin
    \/ submit
    \/ as_completed_begin
    \/ \E u \in Tasks : future_result(u)
    \/ as_completed_end
    \/ save_data

NextRun == scrape \/ \E u \in Tasks : task(u)

Next == NextRun \/ new_run

\* runs of one work unit, one after the other, over a cache directory that
\* starts empty
Spec == Init /\ [][Next]_vars

\* cache files earlier runs can have left for a unit: none, a fresh
\* readable entry, a fresh entry cut short by a failed write
PoolEntries ==
    {NoFile,
     [exists |-> TRUE, mtime |-> MaxTime, readable |-> TRUE, rows |-> <<RecordOf(RowA)>>],
     [exists |-> TRUE, mtime |-> MaxTime, readable |-> FALSE, rows |-> <<>>]}

\* the run is short: the clock, at MaxTime, reads the same throughout, and
\* the source is up (see FewResponses)
InitPool ==
    /\ config \in PoolConfigs
    /\ today = Today
    /\ site = "few"
    /\ now = MaxTime
    /\ \E left \in [Range(Units) -> PoolEntries] : cache = FilesOf(left)
    /\ FreshRun
    /\ ApiInit

\* one run over two or three work units, started over the cache files of
\* earlier runs
SpecPool == InitPool /\ [][NextRun]_vars

\* a run over one work unit and a source that lists one transaction
InitFilter ==
    /\ config \in FilterConfigs
    /\ today = Today
    /\ site = "cells"
    /\ now = MaxTime
    /\ \E left \in [Range(Units) -> PoolEntries] : cache = FilesOf(left)
    /\ FreshRun
    /\ ApiInit

\* one run over one work unit: every row text under every configuration
\* of the filter
SpecFilter == InitFilter /\ [][NextRun]_vars

\* a run over one work unit with a configuration that may have null filters
InitNull ==
    /\ config \in NullConfigs
    /\ today = Today
    /\ site = "any"
    /\ now = MaxTime
    /\ \E left \in [Range(Units) -> PoolEntries] : cache = FilesOf(left)
    /\ FreshRun
    /\ ApiInit

\* one run over one work unit, every response, filters that may be null
SpecNull == InitNull /\ [][NextRun]_vars

\* a run over one work unit with any of the output formats
InitSave ==
    /\ config \in SaveConfigs
    /\ today = Today
    /\ site = "few"
    /\ now = MaxTime
    /\ \E left \in [Range(Units) -> PoolEntries] : cache = FilesOf(left)
    /\ FreshRun
    /\ ApiInit

\* one run over one work unit, every output format
SpecSave == InitSave /\ [][NextRun]_vars

\* the web API started, the scraper as configured by default and not run
InitApi ==
    /\ config = StartingAt(ConfigDefault, 2)
    /\ today = Today
    /\ site = "few"
    /\ now = 0
    /\ cache = NoFiles
    /\ FreshRun
    /\ ApiInit

\* the web API serving MaxPosts requests of POST /api/run
SpecApi == InitApi /\ [][NextApi]_vars

\* the units of the runs of SpecPool
PoolUnits == UNION {Range(WorkUnits(c, Today)) : c \in PoolConfigs}

\* a run as in SpecPool over a source that lists no transaction
InitLive ==
    /\ config \in PoolConfigs
    /\ today = Today
    /\ site = "empty"
    /\ now = MaxTime
    /\ \E left \in [Range(Units) -> PoolEntries] : cache = FilesOf(left)
    /\ FreshRun
    /\ ApiInit

\* that run with threads that keep running: the thread of scrape takes its
\* next step when it has one, and so does the worker thread of each task,
\* every call of requests.get coming back with a response or an exception
SpecLive ==
    /\ InitLive
    /\ [][NextRun]_vars
    /\ WF_vars(scrape)
    /\ \A u \in PoolUnits : WF_vars(u \in Tasks /\ task(u))

\* a run started in any of Days with any of StartConfigs
InitUnits ==
    /\ config \in StartConfigs
    /\ today \in Readings
    /\ site = "few"
    /\ now = 0
    /\ cache = NoFiles
    /\ FreshRun
    /\ ApiInit

\* lines 196-210 of scrape: the pool is created, the two loops submit a
\* task per pair, as_completed is entered
NextSubmit == scrape_begin \/ submit \/ as_completed_begin

\* the submission loops of scrape alone, no task having started yet
SpecUnits == InitUnits /\ [][NextSubmit]_vars

(* ------------------------------------------------------------------ *)
(* Claims                                                              *)
(* ------------------------------------------------------------------ *)
\* the bound of freshness, in seconds
MaxAgeSeconds == config.cache_max_age * SecondsPerHour

\* _is_cache_valid found a file for u and computed an age below the bound
FoundFresh(u) == config.cache_enabled /\ age[u] # <<>> /\ age[u][1] < MaxAgeSeconds

\* C1: a unit for which caching is enabled and a fresh entry exists when
\* the cache is checked never calls _fetch_data in that run, and what it
\* returns is the stored set.
C1_FreshEntryIsNotFetched ==
    \A u \in Tasks :
        FoundFresh(u) =>
            /\ attempts[u] = 0
            /\ pc[u] \notin {"Fetch", "Parse", "CacheWrite", "Return"}
            /\ writes[u] = 0
            /\ pc[u] = "returned" => result[u] = Range(cache_file(u).rows)

C1_Witness ==
    \E u \in Tasks :
        /\ FoundFresh(u)
        /\ pc[u] = "returned"
        /\ result[u] # {}
        /\ orch = "done"

\* C7: an entry is trusted only when its age is strictly below
\* cache_max_age * 3600 seconds; with an age at or above the bound, or
\* with no file, the entry is not read and the unit is fetched.
C7_TrustedOnlyWhenStrictlyYounger ==
    \A u \in Tasks :
        /\ (pc[u] = "CacheRead" \/ outcome[u] \in {"hit", "cache_error"})
              => (age[u] # <<>> /\ age[u][1] < MaxAgeSeconds)
        /\ (pc[u] \notin {"idle", "queued"} /\ (age[u] = <<>> \/ age[u][1] >= MaxAgeSeconds))
              => /\ pc[u] # "CacheRead"
                 /\ outcome[u] \notin {"hit", "cache_error"}
                 /\ attempts[u] >= 1 \/ pc[u] = "Fetch"

C7_Witness ==
    \E u \in Tasks :
        /\ config.cache_enabled
        /\ age[u] # <<>>
        /\ age[u][1] = MaxAgeSeconds
        /\ cache_file(u).readable
        /\ attempts[u] >= 1

\* a Record passes the filter of the run
Passes(rec) == apply_filters(FieldsOf(rec), config)

\* C2: a record the filter of the run rejects is in no unit's output set,
\* in no cache entry written in the run, and not in the aggregate.
C2_RejectedRecordIsNowhere ==
    /\ \A u \in Tasks :
          /\ pc[u] = "returned" => \A r \in result[u] : Passes(r)
          /\ (writes[u] > 0 /\ cache_file(u).readable)
                => \A i \in DOMAIN cache_file(u).rows : Passes(cache_file(u).rows[i])
    /\ \A i \in DOMAIN all_data : Passes(all_data[i])

\* C6: _fetch_data makes at most retry_attempts attempts for a unit.
C6_AttemptsBoundedByConfig ==
    \A u \in Tasks : attempts[u] <= config.retry_attempts

Accepted(rows) ==
    {insider_data(rows[i]) :
        i \in {j \in DOMAIN rows :
                 /\ Len(rows[j]) = Len(column_keys)
                 /\ apply_filters(insider_data(rows[j]), config)}}

\* C9: for every row of the raw table that passes the filter, however many
\* times its 12 retained fields occur in the table, the unit's output set
\* and the cache entry written for it hold exactly one Record with those
\* fields.
C9_OneRecordPerRetainedRow ==
    \A u \in Tasks :
        pc[u] = "Return" =>
            LET acc == Accepted(response[u].body.rows) IN
            /\ Cardinality(data[u]) = Cardinality(acc)
            /\ \A d \in acc : Cardinality({r \in data[u] : FieldsOf(r) = d}) = 1
            /\ config.cache_enabled =>
                  /\ Len(cache_file(u).rows) = Cardinality(acc)
                  /\ \A d \in acc :
                        Cardinality({k \in DOMAIN cache_file(u).rows :
                                        FieldsOf(cache_file(u).rows[k]) = d}) = 1

C9_Witness ==
    \E u \in Tasks :
        /\ pc[u] = "Return"
        /\ config.cache_enabled
        /\ LET rows == response[u].body.rows IN
           \E i, j \in DOMAIN rows :
              /\ i # j
              /\ rows[i] # rows[j]
              /\ Len(rows[i]) = Len(column_keys) /\ Len(rows[j]) = Len(column_keys)
              /\ insider_data(rows[i]) = insider_data(rows[j])
              /\ insider_data(rows[i]) \in Accepted(rows)
        /\ Cardinality(data[u]) = 1
        /\ Len(cache_file(u).rows) = 1

\* what the future of u has to give to the aggregate
Yield(u) == IF pc[u] = "returned" THEN Cardinality(result[u]) ELSE 0

RECURSIVE SumYield(_)
SumYield(S) ==
    IF S = {} THEN 0
    ELSE LET x == CHOOSE y \in S : TRUE IN Yield(x) + SumYield(S \ {x})

Submitted == Range(futures)

\* C3: when the task of a unit raises out of _get_data_for_month, scrape
\* catches it where it aggregates: the unit adds nothing, one error is
\* logged for it, and every other submitted unit has reached its terminal
\* state and added its records by the time the aggregate is complete.
C3_RaisingUnitIsIsolated ==
    orch \in {"saving", "done"} =>
        /\ Submitted = Range(Units)
        /\ \A u \in Submitted :
              /\ pc[u] \in Terminal
              /\ pc[u] = "raised" => (contrib[u] = <<>> /\ log[u].future_error = 1)
              /\ pc[u] = "returned"
                    => /\ Range(contrib[u]) = result[u]
                       /\ Len(contrib[u]) = Cardinality(result[u])
                       /\ log[u].future_error = 0
        /\ Len(all_data) = SumLen(contrib, Submitted)
        /\ Range(all_data) = UNION {Range(contrib[u]) : u \in Submitted}

\* a single worker: the first unit raised before the second was started
C3_Witness ==
    /\ orch = "done"
    /\ config.max_workers = 1
    /\ Len(futures) >= 2
    /\ pc[futures[1]] = "raised"
    /\ pc[futures[2]] = "returned"
    /\ contrib[futures[2]] # <<>>

\* C4: _save_data starts only when every submitted unit is terminal: none
\* is queued or running while scrape is saving or has saved.
C4_SaveAfterAllTerminal ==
    orch \in {"saving", "done"} =>
        /\ \A u \in Range(Units) : pc[u] \in Terminal
        /\ Running = {}
        /\ pbar = Len(Units)

C4_Witness ==
    /\ orch = "saving"
    /\ Len(futures) = 3
    /\ \E u, v \in Submitted : u # v /\ outcome[u] = "ok" /\ outcome[v] = "fetch_failed"

\* C5: a unit whose every fetch attempt fails until the retries are
\* exhausted is done with the empty set, one error logged by its own
\* handler and nothing raised to scrape; the aggregate has the size it
\* would have without the unit.
C5_FailedFetchGivesEmptyUnit ==
    \A u \in Tasks :
        outcome[u] = "fetch_failed" =>
            /\ attempts[u] = Tries
            /\ pc[u] = "returned"
            /\ result[u] = {}
            /\ log[u] = [warning |-> 0, error |-> 1, future_error |-> 0]
            /\ contrib[u] = <<>>
            /\ writes[u] = 0
            /\ orch \in {"saving", "done"} => Len(all_data) = SumYield(Submitted \ {u})

C5_Witness ==
    \E u \in Tasks :
        /\ outcome[u] = "fetch_failed"
        /\ orch = "done"
        /\ all_data # <<>>

\* C10: the units whose processing has started and is not over are never
\* more than max_workers.
C10_AtMostMaxWorkersRunning == Cardinality(Running) <= config.max_workers

C10_Witness ==
    /\ config.max_workers = 2
    /\ Cardinality(Running) = 2
    /\ \E u \in Tasks : pc[u] = "queued"

(* ------------------------------------------------------------------ *)
(* C11: one task and one cache path per work unit                      *)
(* ------------------------------------------------------------------ *)
\* the cache path the task of the unit u uses
PathOf(u) == get_cache_path(u[1], u[2])

\* the tasks that are between opening and closing a cache file
Accessing == {u \in Tasks : pc[u] \in {"CacheRead", "CacheWrite"}}

\* C11: within a run no unit is submitted twice and distinct submitted
\* units have distinct cache paths, so two tasks that are inside a cache
\* access at the same time are never at the same path
C11_OneTaskAndOnePathPerUnit ==
    /\ \A i, j \in DOMAIN futures :
          i # j => /\ futures[i] # futures[j]
                   /\ PathOf(futures[i]) # PathOf(futures[j])
    /\ \A u, v \in Accessing : u # v => PathOf(u) # PathOf(v)

\* two tasks are inside a cache access at the same time, one of them writing
C11_Witness ==
    \E u, v \in Accessing : u # v /\ pc[u] = "CacheWrite"

(* ------------------------------------------------------------------ *)
(* C12: the aggregate is extended by scrape only, once per unit        *)
(* ------------------------------------------------------------------ *)
\* C12: a step of a task never changes all_data; all_data changes only
\* when scrape takes the result of one finished unit not taken before,
\* and then by appending that unit's whole result, each record once, in
\* one step; so all_data is at all times the concatenation of the
\* contributions of the units taken so far, whatever the completion order
C12_AggregateExtendedOncePerUnit ==
    /\ [](/\ Len(all_data) = SumLen(contrib, consumed)
          /\ \A u \in Tasks \ consumed : contrib[u] = <<>>)
    /\ [][/\ pc' # pc => all_data' = all_data
          /\ all_data' # all_data =>
                \E u \in Tasks \ consumed :
                    /\ pc[u] = "returned"
                    /\ consumed' = consumed \cup {u}
                    /\ all_data' = all_data \o contrib'[u]
                    /\ Range(contrib'[u]) = result[u]
                    /\ Len(contrib'[u]) = Cardinality(result[u])
                    /\ \A v \in Tasks \ {u} : contrib'[v] = contrib[v]
                    /\ pc' = pc]_vars

\* the unit submitted second was appended while the unit submitted first
\* is still running
C12_Witness ==
    /\ Len(futures) >= 2
    /\ consumed = {futures[2]}
    /\ all_data = contrib[futures[2]]
    /\ all_data # <<>>
    /\ pc[futures[1]] \in InProgress

(* ------------------------------------------------------------------ *)
(* C13, C14: the work units of a run                                   *)
(* ------------------------------------------------------------------ *)
\* (y1, m1) is not after (y2, m2)
NotAfter(y1, m1, y2, m2) == y1 < y2 \/ (y1 = y2 /\ m1 <= m2)

\* the months from the configured start through the month cur
MonthsThrough(cur) ==
    {u \in (config.start_year..cur.year) \X (1..12) :
        /\ NotAfter(config.start_year, config.start_month, u[1], u[2])
        /\ NotAfter(u[1], u[2], cur.year, cur.month)}

\* C13: the list the loops of scrape go through holds exactly the months
\* from (start_year, start_month) through the current month, each once,
\* the current month being the month in which scrape read the clock (the
\* month of either of its two readings); the list is empty when the start
\* is after the current month; the futures list is built from it once,
\* front to back, and is complete when the submission loops end
C13_UnitsAreTheMonthsThroughToday ==
    /\ \E cur \in {today.first, today.second} :
          /\ Range(Units) = MonthsThrough(cur)
          /\ Len(Units) = Cardinality(MonthsThrough(cur))
          /\ (~NotAfter(config.start_year, config.start_month, cur.year, cur.month)
                => Units = <<>>)
    /\ Len(futures) <= Len(Units)
    /\ futures = SubSeq(Units, 1, Len(futures))
    /\ (orch # "init" /\ orch # "submitting") => futures = Units

\* (y1, m1) is before (y2, m2)
Before(u, v) == u[1] < v[1] \/ (u[1] = v[1] /\ u[2] < v[2])

\* C14: at every moment of the submission the futures list is in strictly
\* ascending (year, month) order, whatever the configured start and the
\* current month
C14_SubmittedInAscendingOrder ==
    \A i, j \in DOMAIN futures : i < j => Before(futures[i], futures[j])

\* the submission loops have ended for a run over more than a year
C14_Witness ==
    /\ orch = "aggregating"
    /\ Len(futures) > 12
    /\ futures[1][1] < futures[Len(futures)][1]
    /\ futures[1][2] > futures[Len(futures)][2]

(* ------------------------------------------------------------------ *)
(* C15: the progress counter                                           *)
(* ------------------------------------------------------------------ *)
\* C15: the progress counter never decreases and changes only by one, when
\* scrape takes a unit that has returned or raised and was not taken
\* before; it counts the units taken, and once the aggregation loop has
\* ended it equals the number of submitted units
C15_ProgressCountsTerminalUnits ==
    /\ [](/\ pbar = Cardinality(consumed)
          /\ \A u \in consumed : pc[u] \in Terminal
          /\ orch \in {"saving", "done"} => pbar = Len(futures))
    /\ [][/\ pbar' >= pbar
          /\ pbar' # pbar =>
                /\ pbar' = pbar + 1
                /\ \E u \in Tasks \ consumed :
                      /\ pc[u] \in Terminal
                      /\ consumed' = consumed \cup {u}]_vars

\* the loop has ended over a unit that returned and a unit that raised
C15_Witness ==
    /\ orch = "saving"
    /\ pbar = Len(futures)
    /\ \E u, v \in Tasks : pc[u] = "returned" /\ pc[v] = "raised"

(* ------------------------------------------------------------------ *)
(* C16: a run terminates                                               *)
(* ------------------------------------------------------------------ *)
\* C16: when no thread stops for ever and every fetch attempt comes back,
\* every submitted unit eventually returns or raises, and scrape
\* eventually gets through _save_data, having by then taken the result of
\* every submitted unit, whichever units failed
C16_RunTerminates ==
    <>(/\ orch = "done"
       /\ consumed = Tasks
       /\ \A u \in Tasks : pc[u] \in Terminal
       /\ output.written = 1
       /\ output.rows = all_data)

\* a run has ended in which the fetch of one unit failed for good and the
\* task of another raised
C16_Witness ==
    /\ orch = "done"
    /\ \E u, v \in Tasks : outcome[u] = "fetch_failed" /\ pc[v] = "raised"

(* ------------------------------------------------------------------ *)
(* C17: caching disabled                                               *)
(* ------------------------------------------------------------------ *)
\* C17: in a run with cache_enabled false no task computes the age of an
\* entry, reads an entry or opens one for writing, every task that ends
\* has called requests.get, and no step of the run changes the cache
\* directory, whatever files it holds
C17_DisabledCacheIsNeverTouched ==
    /\ [](~config.cache_enabled =>
            \A u \in Tasks :
                /\ age[u] = <<>>
                /\ writes[u] = 0
                /\ pc[u] \notin {"CacheRead", "CacheWrite"}
                /\ outcome[u] \notin {"hit", "cache_error", "write_failed"}
                /\ pc[u] \in Terminal => attempts[u] >= 1)
    /\ [][~config.cache_enabled => cache' = cache]_vars

\* with caching disabled a unit was fetched and returned its rows although
\* a readable entry younger than cache_max_age is in the directory, and
\* the entry is still there
C17_Witness ==
    /\ ~config.cache_enabled
    /\ \E u \in Tasks :
          /\ cache_file(u).exists /\ cache_file(u).readable
          /\ now - cache_file(u).mtime < MaxAgeSeconds
          /\ pc[u] = "returned" /\ outcome[u] = "ok"
          /\ attempts[u] >= 1
          /\ result[u] # {}
          /\ result[u] # Range(cache_file(u).rows)

(* ------------------------------------------------------------------ *)
(* C18, C19, C20: the filter and the numeric coercion                  *)
(* ------------------------------------------------------------------ *)
\* the task of u has gone through the rows of its table
RowsDone(u) == pc[u] \in {"CacheWrite", "Return"}

\* the full-length rows of the table the task of u fetched
FullRowsOf(u) ==
    {response[u].body.rows[i] : i \in DOMAIN response[u].body.rows}
        \cap {cols \in Seq(Seq(STRING)) : Len(cols) = Len(column_keys)}

\* the five conditions of rejection
WrongType(d) ==
    config.transaction_types # {} /\ d["trade_type"] \notin config.transaction_types
Excluded(d) == d["ticker"] \in config.exclude_companies
NotIncluded(d) ==
    config.include_companies # {} /\ d["ticker"] \notin config.include_companies
ValueBelow(d) ==
    FloatLt(clean_numeric(d["value"]), Num(100 * config.min_transaction_value))
SharesBelow(d) ==
    FloatLt(FloatAbs(clean_numeric(d["qty"])), Num(100 * config.min_shares_traded))

\* C18: a row of full length is kept out of data exactly when one of the
\* five conditions holds for it under the run's configuration; an empty
\* transaction_types or include_companies rejects nothing; and the step
\* that filters the rows changes the data and the position of its task
\* only
C18_RejectedIffOneConditionHolds ==
    /\ [](\A u \in Tasks : RowsDone(u) =>
            \A cols \in FullRowsOf(u) :
                RecordOf(cols) \notin data[u]
                    <=> \/ WrongType(insider_data(cols))
                        \/ Excluded(insider_data(cols))
                        \/ NotIncluded(insider_data(cols))
                        \/ ValueBelow(insider_data(cols))
                        \/ SharesBelow(insider_data(cols)))
    /\ [][\A u \in Tasks : (~RowsDone(u) /\ RowsDone(u)') =>
            /\ UNCHANGED <<apiVars, config, today, site, now, cache, orchVars>>
            /\ UNCHANGED <<attempts, response, result, outcome, age, writes, log>>
            /\ \A v \in Tasks \ {u} : data'[v] = data[v] /\ pc'[v] = pc[v]]_vars

\* a sale was kept under a configuration with an empty transaction_types
\* and with an empty include_companies
C18_Witness ==
    \E u \in Tasks :
        /\ RowsDone(u)
        /\ config.transaction_types = {}
        /\ config.include_companies = {}
        /\ \E cols \in FullRowsOf(u) :
              /\ insider_data(cols)["trade_type"] = <<"S">>
              /\ RecordOf(cols) \in data[u]

\* every check but the value check lets the record through
OtherChecksPass(d) ==
    ~WrongType(d) /\ ~Excluded(d) /\ ~NotIncluded(d) /\ ~SharesBelow(d)

\* C19: a row that passes every other check is kept when its cleaned value
\* equals min_transaction_value and is left out when its cleaned value is
\* one whole unit below it
C19_MinimumValueIsInclusive ==
    \A u \in Tasks : RowsDone(u) =>
        \A cols \in FullRowsOf(u) :
            OtherChecksPass(insider_data(cols)) =>
                /\ clean_numeric(insider_data(cols)["value"])
                        = Num(100 * config.min_transaction_value)
                            => RecordOf(cols) \in data[u]
                /\ clean_numeric(insider_data(cols)["value"])
                        = Num(100 * config.min_transaction_value - 100)
                            => RecordOf(cols) \notin data[u]

\* of the purchases of $25,000 and of $24,999 listed in one table, under a
\* minimum of 25000, the first is kept and the second is not, which passes
\* every other check
C19_Witness ==
    \E u \in Tasks :
        /\ RowsDone(u)
        /\ config.min_transaction_value = 25000
        /\ response[u].body.rows = <<RowA, RowB>>
        /\ OtherChecksPass(insider_data(RowB))
        /\ data[u] = {RecordOf(RowA)}

\* the text, its '$', ',', '+' and '%' removed, is a decimal numeral with
\* an optional sign, and the number it writes
Unsymboled(text) == Remove(Remove(Remove(Remove(text, "$"), ","), "+"), "%")
IsNumeral(text) == IsUnsignedFloat(FloatBody(Unsymboled(text)))
NumeralVal(text) ==
    LET w == Strip(Unsymboled(text))
        n == UnsignedFloatVal(FloatBody(Unsymboled(text))) IN
    IF Head(w) = "-" THEN 0 - n ELSE n

\* the numeric cells of the full-length rows the task of u fetched
NumericCellsOf(u) ==
    {insider_data(cols)[k] : cols \in FullRowsOf(u), k \in {"value", "qty"}}

\* C20: for every text of a value or qty cell _clean_numeric gives 0.0 when
\* the text is empty, is "N/A" or "new" in any letter case, or is not a
\* numeral once '$', ',', '+' and '%' are removed, and gives the number
\* the numeral writes otherwise
C20_CleanNumericIsZeroOrTheNumeral ==
    \A u \in Tasks : RowsDone(u) =>
        \A text \in NumericCellsOf(u) :
            clean_numeric(text) =
                IF text = <<>> \/ Lower(text) \in {<<"n", "/", "a">>, <<"n", "e", "w">>}
                THEN Num(0)
                ELSE IF IsNumeral(text) THEN Num(NumeralVal(text))
                ELSE Num(0)

\* ---------------------------------------------------------------------
\* C21: an exception raised while the filter evaluates a record
\* ---------------------------------------------------------------------

\* the positions of the full-length rows of the table the task of u fetched
FullPositions(u) ==
    {i \in DOMAIN response[u].body.rows :
        Len(response[u].body.rows[i]) = Len(column_keys)}

\* the outcome of the filter on the row at position i, taken on its own
OutcomeAt(u, i) == filter_outcome(insider_data(response[u].body.rows[i]), config)

\* C21: when the tests of _apply_filters raise on a record, the exception
\* stays inside _apply_filters: the record is rejected and one warning is
\* logged for it, the task does not enter its except handler (no error is
\* logged, the task goes on to the cache write or the return), and every
\* other row of the unit is decided by its own evaluation: the records
\* collected are exactly those of the rows on which the tests return True
C21_FilterExceptionRejectsOnlyItsRecord ==
    [][\A u \in Tasks :
          (pc[u] = "Parse" /\ pc'[u] # "Parse"
              /\ response[u].body.table /\ response[u].body.tbody) =>
             /\ RowsDone(u)'
             /\ data'[u] = {RecordOf(response[u].body.rows[i]) :
                               i \in {j \in FullPositions(u) : OutcomeAt(u, j) = "true"}}
             /\ log'[u].warning = log[u].warning
                   + Cardinality({i \in FullPositions(u) : OutcomeAt(u, i) = "raised"})
             /\ log'[u].error = log[u].error
             /\ outcome'[u] = outcome[u]]_vars

\* a table of two rows: the tests raised on the first (one warning), the
\* second was still evaluated and rejected by a test of its own
C21_Witness ==
    \E u \in Tasks :
        /\ RowsDone(u)
        /\ Len(response[u].body.rows) = 2
        /\ FullPositions(u) = {1, 2}
        /\ OutcomeAt(u, 1) = "raised"
        /\ OutcomeAt(u, 2) = "false"
        /\ log[u].warning = 1
        /\ log[u].error = 0
        /\ data[u] = {}

\* ---------------------------------------------------------------------
\* C22: a response without the expected table
\* ---------------------------------------------------------------------

\* C22: a unit whose response holds no table leaves by the no-table
\* branch, and from then on it has returned the empty set, its log holds
\* exactly one warning, no error and no error of its future, and it adds
\* nothing to the aggregate
C22_NoTableIsAWarningNotAFailure ==
    /\ [](\A u \in Tasks : outcome[u] = "no_table" =>
            /\ pc[u] = "returned"
            /\ result[u] = {}
            /\ log[u] = [warning |-> 1, error |-> 0, future_error |-> 0]
            /\ contrib[u] = <<>>)
    /\ [][\A u \in Tasks :
            (pc[u] = "Parse" /\ pc'[u] # "Parse" /\ ~response[u].body.table) =>
                outcome'[u] = "no_table"]_vars

\* the future of a unit without table was consumed, next to a unit that
\* returned a record
C22_Witness ==
    \E u, v \in Tasks :
        /\ outcome[u] = "no_table"
        /\ u \in consumed
        /\ log[u].warning = 1
        /\ outcome[v] = "ok"
        /\ result[v] # {}

\* ---------------------------------------------------------------------
\* C23: rows whose cell count is not that of the schema
\* ---------------------------------------------------------------------

IsFullRow(cols) == Len(cols) = Len(column_keys)

\* the table the task of u fetched, without the rows of another length
WithoutOddRows(u) == SelectSeq(response[u].body.rows, IsFullRow)

\* C23: the rows of a table whose cell count is not the 17 of the schema
\* are skipped: the records collected from the table are those collected
\* from the table without these rows, the warnings logged are the same,
\* no error is logged and the task goes on to the cache write or the return
C23_OddRowsAreSkipped ==
    [][\A u \in Tasks :
          (pc[u] = "Parse" /\ pc'[u] # "Parse"
              /\ response[u].body.table /\ response[u].body.tbody) =>
             /\ data'[u] = process_rows(WithoutOddRows(u), config)
             /\ log'[u].warning - log[u].warning = filter_warnings(WithoutOddRows(u), config)
             /\ log'[u].error = log[u].error
             /\ RowsDone(u)']_vars

\* a table of 17 columns lists a row of 16 cells before a purchase, and
\* the purchase was collected
C23_Witness ==
    \E u \in Tasks :
        /\ RowsDone(u)
        /\ Len(response[u].body.rows) = 2
        /\ Len(response[u].body.rows[1]) = 16
        /\ Len(response[u].body.rows[2]) = 17
        /\ data[u] = {RecordOf(response[u].body.rows[2])}
        /\ log[u].error = 0

\* ---------------------------------------------------------------------
\* C24: the final aggregate
\* ---------------------------------------------------------------------

\* the units whose task returned a set to scrape
Returned == {u \in Tasks : pc[u] = "returned"}

\* how many times the record r is listed in all_data
Occurrences(r) == Cardinality({i \in DOMAIN all_data : all_data[i] = r})

\* C24: once the results of all units are taken, all_data lists the result
\* sets of the units whose task returned one after the other: its length
\* is the sum of the sizes of these sets, every record is listed once for
\* each unit whose set holds it (a record of two units is listed twice),
\* and a unit without table, with a failed fetch or with a task that
\* raised adds nothing
C24_AggregateIsConcatenationOfResults ==
    orch \in {"saving", "done"} =>
        /\ Len(all_data) = SumYield(Tasks)
        /\ \A r \in Range(all_data) \cup UNION {result[u] : u \in Returned} :
              Occurrences(r) = Cardinality({u \in Returned : r \in result[u]})
        /\ \A u \in Tasks :
              (outcome[u] \in {"no_table", "fetch_failed"} \/ pc[u] = "raised")
                  => contrib[u] = <<>>

\* two units returned the same record and a third had no table: the
\* aggregate lists the record twice
C24_Witness ==
    /\ orch = "done"
    /\ \E u, v, w \in Tasks :
          /\ u # v
          /\ pc[u] = "returned" /\ pc[v] = "returned"
          /\ result[u] # {} /\ result[u] = result[v]
          /\ outcome[w] = "no_table"
    /\ Len(all_data) = 2
    /\ all_data[1] = all_data[2]

\* ---------------------------------------------------------------------
\* C25: the date window of a work unit
\* ---------------------------------------------------------------------

\* the date d is before the date e
DateLt(d, e) ==
    \/ d.year < e.year
    \/ d.year = e.year /\ d.month < e.month
    \/ d.year = e.year /\ d.month = e.month /\ d.day < e.day

\* the last calendar day of a month
LastDay(year, month) == Date(year, month, DaysInMonth(year, month))

\* C25: the window requested for a submitted unit (year, month) begins
\* on the first day of the month and ends on its last calendar day, 29
\* February in a leap year, and is sent as mm/01/yyyy+-+mm/dd/yyyy; of
\* the windows of two distinct units one ends before the other begins
C25_WindowIsTheCalendarMonth ==
    /\ \A u \in Submitted :
          /\ start_date(u[1], u[2]) = Date(u[1], u[2], 1)
          /\ end_date(u[1], u[2]) = LastDay(u[1], u[2])
          /\ fdr(u[1], u[2]) =
                ZeroPadded(u[2], 2) \o <<"/", "0", "1", "/">> \o IntText(u[1])
                   \o <<"+", "-", "+">>
                   \o ZeroPadded(u[2], 2) \o <<"/">> \o IntText(DaysInMonth(u[1], u[2]))
                   \o <<"/">> \o IntText(u[1])
    /\ \A u, v \in Submitted :
          u # v => \/ DateLt(end_date(u[1], u[2]), start_date(v[1], v[2]))
                   \/ DateLt(end_date(v[1], v[2]), start_date(u[1], u[2]))

\* February of a leap year, February of a common year, a month of 30
\* days and December were submitted in one run
C25_Witness ==
    /\ {<<2023, 2>>, <<2023, 12>>, <<2024, 2>>, <<2024, 4>>} \subseteq Submitted
    /\ end_date(2024, 2).day = 29
    /\ end_date(2023, 2).day = 28
    /\ end_date(2024, 4).day = 30
    /\ end_date(2023, 12) = Date(2023, 12, 31)

\* ---------------------------------------------------------------------
\* C26: the output file
\* ---------------------------------------------------------------------

\* C26: the output file is not written while units are processed and
\* aggregated, and a run that has gone through _save_data has written it
\* exactly once, with the whole aggregate, whatever the configured output
\* format and also when the aggregate is empty
C26_OutputWrittenOnceAfterAggregation ==
    /\ orch # "done" => output = NoOutput
    /\ orch = "done" => output = [written |-> 1, rows |-> all_data]

\* ---------------------------------------------------------------------
\* C27: the cache round trip
\* ---------------------------------------------------------------------

HoldsFailureStatus(u) == response[u] # NoResponse /\ response[u].status # 200

\* C28: a response is returned by _fetch_data whatever its status: the
\* attempt that received it is the last one (a task still fetching holds
\* no response, and the step that receives one goes on to the parse), and
\* a response whose status is not a success is parsed by its body alone:
\* without the table it gives the no-table warning and the empty set,
\* with the table its rows are collected as those of any response, and no
\* error is logged
C28_FailureStatusIsParsedLikeAnyResponse ==
    /\ [](\A u \in Tasks : pc[u] = "Fetch" => response[u] = NoResponse)
    /\ [][\A u \in Tasks :
            /\ (pc[u] = "Fetch" /\ response'[u] # NoResponse) =>
                  /\ pc'[u] = "Parse"
                  /\ attempts'[u] = attempts[u] + 1
                  /\ log'[u] = log[u]
            /\ (pc[u] = "Parse" /\ pc'[u] # "Parse" /\ HoldsFailureStatus(u)) =>
                  LET body == response[u].body IN
                  /\ ~body.table =>
                        /\ outcome'[u] = "no_table"
                        /\ result'[u] = {}
                        /\ log'[u] = [log[u] EXCEPT !.warning = @ + 1]
                  /\ (body.table /\ body.tbody) =>
                        /\ RowsDone(u)'
                        /\ data'[u] = process_rows(body.rows, config)
                        /\ log'[u].error = log[u].error]_vars

\* the first attempt received a response of status 503 that holds the
\* table, and a record of it was collected
C28_Witness ==
    \E u \in Tasks :
        /\ RowsDone(u)
        /\ HoldsFailureStatus(u)
        /\ attempts[u] = 1
        /\ data[u] # {}
        /\ log[u] = NoLog

\* ---------------------------------------------------------------------
\* C29: a cache hit does not filter
\* ---------------------------------------------------------------------

\* the records stored in the entry of the unit u
Stored(u) == {cache_file(u).rows[i] : i \in DOMAIN cache_file(u).rows}

\* C29: a task that reads its fresh entry returns every stored record,
\* also one the filter of the current run rejects: nothing is fetched,
\* no record is put through _apply_filters (no filter warning, nothing
\* collected), and the entry is left as it is
C29_HitReturnsStoredSetUnfiltered ==
    /\ [](\A u \in Tasks : outcome[u] = "hit" =>
            /\ result[u] = Stored(u)
            /\ attempts[u] = 0
            /\ log[u].warning = 0)
    /\ [][\A u \in Tasks :
            (pc[u] = "CacheRead" /\ pc'[u] = "returned") =>
                /\ result'[u] = Stored(u)
                /\ data'[u] = {}
                /\ log' = log
                /\ cache' = cache]_vars

\* the entry was written by a run with min_transaction_value 0 and no
\* transaction types; the current run, with the default filter, returned
\* from it a record of $24,999 that its own filter rejects
C29_Witness ==
    \E u \in Tasks :
        /\ outcome[u] = "hit"
        /\ config.min_transaction_value = 25000
        /\ \E r \in result[u] :
              /\ ~Passes(r)
              /\ clean_numeric(FieldsOf(r)["value"]) = Num(2499900)

\* ---------------------------------------------------------------------
\* C30: the entry of a unit that failed to fetch or found no table
\* ---------------------------------------------------------------------

\* the task of u ended with its fetch failed or without the table
EndedEmptyHanded(u) == outcome[u] \in {"fetch_failed", "no_table"}

\* the clock readings from now on
LaterReadings == {t \in 0..MaxTime : t >= now /\ t % (SecondsPerHour \div 2) = 0}

\* C30: a unit whose fetch failed after the retries, or whose response
\* held no table, has not written its entry: the step that ends it leaves
\* the cache directory as it is, the directory changes only by the write
\* of a task at its cache write, and this unit made none. With caching
\* enabled the entry it found absent or stale is therefore still absent
\* or stale at every later reading of the clock, so the next run with
\* this configuration does not find it fresh and fetches the unit again
C30_FailedUnitLeavesItsEntryAlone ==
    /\ [](\A u \in Tasks : EndedEmptyHanded(u) =>
            /\ writes[u] = 0
            /\ config.cache_enabled =>
                  \A t \in LaterReadings : ~is_cache_valid(cache_file(u), t, config))
    /\ [][/\ \A u \in Tasks :
               (EndedEmptyHanded(u)' /\ ~EndedEmptyHanded(u) /\ Tasks' = Tasks) =>
                   /\ pc[u] \in {"Fetch", "Parse"}
                   /\ cache' = cache
          /\ cache' # cache =>
                \E u \in Tasks :
                    /\ pc[u] = "CacheWrite"
                    /\ writes'[u] = writes[u] + 1
                    /\ \A p \in DOMAIN cache : p # PathOf(u) => cache'[p] = cache[p]]_vars

\* the fetch of a unit failed after the retries while the entry an
\* earlier run wrote for it lies stale in the directory, as it was written
C30_Witness ==
    \E u \in Tasks :
        /\ outcome[u] = "fetch_failed"
        /\ config.cache_enabled
        /\ cache_file(u).exists
        /\ cache_file(u).readable
        /\ cache_file(u).rows # <<>>
        /\ age[u] # <<>>
        /\ age[u][1] >= MaxAgeSeconds
        /\ orch = "done"

\* ---------------------------------------------------------------------
\* C31: a cache write that fails
\* ---------------------------------------------------------------------

\* C31: when the write of the entry raises, the task ends in its except
\* handler: it returns the empty set although it had collected records,
\* one error is logged, nothing is raised to scrape and the unit adds
\* nothing to the aggregate
C31_FailedCacheWriteLosesTheRecords ==
    /\ [](\A u \in Tasks : outcome[u] = "write_failed" =>
            /\ pc[u] = "returned"
            /\ result[u] = {}
            /\ attempts[u] >= 1
            /\ log[u].error = 1
            /\ log[u].future_error = 0
            /\ contrib[u] = <<>>)
    /\ [][\A u \in Tasks :
            (pc[u] = "CacheWrite" /\ pc'[u] \notin {"CacheWrite", "Return"}) =>
                /\ outcome'[u] = "write_failed"
                /\ pc'[u] = "returned"
                /\ result'[u] = {}
                /\ all_data' = all_data]_vars

\* the write failed for a unit that had fetched a table with a purchase
\* the filter accepts; scrape took its result and the run ended with an
\* aggregate that holds no record of it
C31_Witness ==
    \E u \in Tasks :
        /\ outcome[u] = "write_failed"
        /\ u \in consumed
        /\ orch = "done"
        /\ \A v \in Tasks \ {u} : result[v] = {}
        /\ all_data = <<>>
        /\ output.rows = <<>>

\* ---------------------------------------------------------------------
\* C32: a fresh entry that cannot be loaded
\* ---------------------------------------------------------------------

\* C32: a task that finds its entry fresh and cannot load it raises out
\* of _get_data_for_month: it fetches nothing, logs nothing itself and
\* rewrites nothing; scrape logs one error when it takes the future,
\* appends nothing for the unit, and the run ends with every unit taken
C32_UnreadableFreshEntryRaises ==
    /\ [](\A u \in Tasks : outcome[u] = "cache_error" =>
            /\ FoundFresh(u)
            /\ pc[u] = "raised"
            /\ attempts[u] = 0
            /\ writes[u] = 0
            /\ result[u] = {}
            /\ contrib[u] = <<>>
            /\ log[u].warning = 0 /\ log[u].error = 0
            /\ log[u].future_error = (IF u \in consumed THEN 1 ELSE 0)
            /\ orch \in {"saving", "done"} =>
                  /\ consumed = Range(Units)
                  /\ pbar = Len(Units)
                  /\ Len(all_data) = SumYield(Tasks \ {u}))
    /\ [][\A u \in Tasks :
            (pc[u] = "CacheRead" /\ pc'[u] # "CacheRead" /\ ~cache_file(u).readable) =>
                /\ pc'[u] = "raised"
                /\ outcome'[u] = "cache_error"
                /\ cache' = cache]_vars

\* the entry of one unit could not be loaded, another unit returned a
\* record, and the run ended with that record in the output
C32_Witness ==
    \E u, v \in Tasks :
        /\ outcome[u] = "cache_error"
        /\ log[u].future_error = 1
        /\ outcome[v] \in {"ok", "hit"}
        /\ result[v] # {}
        /\ orch = "done"
        /\ output.rows = all_data
        /\ Range(all_data) = result[v]

\* ---------------------------------------------------------------------
\* C33: the sign of value and of qty
\* ---------------------------------------------------------------------

\* the float x is below zero
Negative(x) == FloatLt(x, Num(0))

\* the float x is not below the whole number n
AtLeast(x, n) == x.kind # "nan" /\ ~FloatLt(x, Num(100 * n))

\* C33: the value check compares the signed value: a row whose cleaned
\* value is negative is left out under every positive
\* min_transaction_value, also when its magnitude is at or above the
\* minimum. The share check compares the magnitude of qty: a negative qty
\* whose magnitude is at or above min_shares_traded is not below the
\* share threshold, and its row is kept when the other four checks pass
C33_ValueSignedSharesAbsolute ==
    \A u \in Tasks : RowsDone(u) =>
        \A cols \in FullRowsOf(u) :
            LET d == insider_data(cols)
                value == clean_numeric(d["value"])
                qty == clean_numeric(d["qty"]) IN
            /\ (Negative(value) /\ config.min_transaction_value > 0)
                  => RecordOf(cols) \notin data[u]
            /\ (Negative(qty) /\ AtLeast(FloatAbs(qty), config.min_shares_traded))
                  => /\ ~SharesBelow(d)
                     /\ (~WrongType(d) /\ ~Excluded(d) /\ ~NotIncluded(d) /\ ~ValueBelow(d))
                            => RecordOf(cols) \in data[u]

\* a purchase of 1,000 shares whose value cell reads -$50,000 passes every
\* check but the value check under the minimum of 25,000 and is left out
C33_Witness ==
    \E u \in Tasks :
        /\ RowsDone(u)
        /\ config.min_transaction_value = 25000
        /\ \E cols \in FullRowsOf(u) :
              /\ clean_numeric(insider_data(cols)["value"]) = Num(0 - 5000000)
              /\ OtherChecksPass(insider_data(cols))
              /\ RecordOf(cols) \notin data[u]

\* ---------------------------------------------------------------------
\* C34, C35: the run trigger of the web API
\* ---------------------------------------------------------------------

\* C34: at most one thread of extractor_worker is alive at any time, and
\* run_extractor_async starts a thread only when none is alive: a POST
\* /api/run handled while an extraction is in progress starts no worker
C34_AtMostOneExtractorWorker ==
    /\ [](Cardinality(Alive) <= 1)
    /\ [][\A r \in Posts :
            (extractor_worker[r] = "none" /\ extractor_worker'[r] # "none") =>
                Alive = {}]_vars

\* the threads that have ended
Terminated == {w \in Posts : extractor_worker[w] = "terminated"}

\* the values of status a worker ends with
FinalStatuses == {"completed", "no_data", "demo_completed", "error"}

\* C35: the step that ends a worker, by whichever path, sets is_running
\* to False; whenever workers have ended and none is alive, is_running is
\* False and status is one of completed, no_data, demo_completed and
\* error, not running; and a POST /api/run that tests is_running then is
\* not answered 400 but goes on to start a worker
C35_TerminatedWorkerResetsTheApi ==
    /\ []((Terminated # {} /\ Alive = {}) =>
            /\ is_running = FALSE
            /\ status \in FinalStatuses)
    /\ [][/\ \A w \in Posts :
               (w \in Alive /\ extractor_worker'[w] = "terminated") =>
                   /\ is_running' = FALSE
                   /\ status' = status
          /\ \A r \in Posts :
               (Terminated # {} /\ Alive = {}
                   /\ api_run[r] = "line150" /\ api_run'[r] # "line150") =>
                      /\ api_run'[r] = "line153"
                      /\ reply'[r] = 0]_vars

\* the first worker ended in its except handler; the POST received after
\* that was answered 200 and its worker has been started
C35_Witness ==
    /\ extractor_worker[1] = "terminated"
    /\ status = "error"
    /\ is_running = FALSE
    /\ reply[2] = 200
    /\ extractor_worker[2] = "line71"

====
